---- MODULE Spec2Model ----
(***************************************************************************)
(* A model of django-syncdata: the importer's run coordinator               *)
(* (syncdata/base.py BaseImporter.run), the file lock (syncdata/utils.py    *)
(* FileLock), the hash reference synchronizer (BaseImporter.synchronize),   *)
(* the model handlers (BaseModelHandler) and the threaded downloader        *)
(* (syncdata/utils.py ThreadedDownloader).                                  *)
(*                                                                          *)
(* Nine specifications share the module:                                    *)
(*   Spec          one BaseImporter.run() call, step by step                *)
(*   SpecFileLock  FileLock called by one caller, with time passing         *)
(*   SpecLockRace  importer processes racing for one lock file (the calls   *)
(*                 of os and os.path are the atomic steps)                  *)
(*   SpecSync      the handler of a referenced collection followed by       *)
(*                 synchronize of a referencing one, on staged data         *)
(*   SpecGen       one handler validating and generating a collection,      *)
(*                 then run again on the next delivery                      *)
(*   SpecPrepare   process_relation over one relation field of a staged     *)
(*                 collection, lookup by lookup                             *)
(*   SpecDownload  ThreadedDownloader.run() with its DownloaderThread       *)
(*                 workers interleaved                                      *)
(*   SpecDownloadFair  the same under a fair scheduler, for termination     *)
(*   SpecKey       get_related_key applied to two relation values of one    *)
(*                 field                                                    *)
(***************************************************************************)
EXTENDS Integers, Sequences, FiniteSets, TLC

\* ---------------------------------------------------------------- bounds
NumLoaders == 2
NumHandlers == 2
\* the staleness window (BaseImporter.locktime, seconds), scaled down
LockTime == 2
\* the clock stops here
MaxTime == 4
\* importer processes sharing one lock file
NumProcs == 2
\* items of the referenced collection
NumAItems == 2

Loaders == 1..NumLoaders
Handlers == 1..NumHandlers
Procs == 1..NumProcs

\* ------------------------------------------------------------- variables
VARIABLES
    \* --- the lock file and the clock (Spec, SpecFileLock, SpecLockRace)
    marker,       \* the lock file: [exists, mtime]
    now,          \* time.time()
    \* --- one importer run (Spec)
    marker0,      \* the lock file as it was when run() was called
    cfg,          \* the importer's lockable attribute and the run's options
    pc,           \* position inside run()
    locker,       \* the local variable locker: "unset", "filelock", "none"
    lockResult,   \* what locker.lock() returned: "notcalled", "true", "false"
    exc,          \* the exception being propagated, "none" when there is none
    excAt,        \* length of the trace when the exception was raised
    cause,        \* what raised it: "lock", "synchronize", "validate",
                  \* "unbound", "raised" (a loader, hook, signal receiver,
                  \* handler or store call), "none"
    status,       \* the local variable status
    returned,     \* "no", "status" (run returned status), "raised"
    data,         \* keys of the staged collections
    files,        \* whether the files map is non-empty
    loaderBound,  \* whether the loop variable loader has been bound
    li,           \* next loader of the loaders loop
    hk,           \* next hook target of pre_run / post_run
    hi,           \* current handler of the handlers loop
    ai,           \* next action of the current handler's actions queue
    trace,        \* steps executed so far, in order
    wrote,        \* handlers whose generate wrote to the store
    lenient,      \* whether a non-strict handler met invalid items
    \* --- FileLock called by one caller (SpecFileLock)
    call,         \* the last call: [op, force, result, before, at]
    \* --- importer processes racing for the lock file (SpecLockRace)
    procs,        \* per process: [pc, saw, acquired, since, late]
    \* --- staged data and store (SpecSync)
    scfg,         \* class attributes of the handlers (strict_mode per
                  \* handler) and of the model
    store,        \* rows of the referenced model: id -> [code, name, note]
    collA,        \* the referenced collection, data["A"]
    collB,        \* the referencing collection, data["B"]
    collB0,       \* data["B"] as the loaders staged it
    spc,          \* "handlerA", "synchronizeB", "synced" (synchronize of
                  \* B returned, B's handler runs next), "validateB",
                  \* "generateB", "done", "raised"
    collA0,       \* data["A"] as the loaders staged it
    storeB,       \* rows of the referencing model, in the order saved
    srun,         \* the run: [status, raised], raised naming the step an
                  \* exception left: "none", "validate A", "synchronize",
                  \* "prepare", "validate"
    \* --- one handler run twice (SpecGen, with scfg, store, collA, collA0
    \*     and spc: "validate", "generate", "ran", "raised")
    gen,          \* [run, i, writes, vstore, store1, same, last]
    \* --- process_relation over one relation field (SpecPrepare, with
    \*     store holding the related model's rows)
    prep,         \* [fname, data, data0, pc, values, objs, queries, qi]
    \* --- the threaded downloader (SpecDownload)
    dl,           \* [pc, tries, threads, queue, unfinished, loaders, report,
                  \*  pool, dest, dest0]
    \* --- get_related_key applied to two relation values (SpecKey)
    keys          \* [pc, a, b, ka, kb]

fileVars == <<marker, now>>

runVars == <<marker0, cfg, pc, locker, lockResult, exc, excAt, cause, status,
             returned, data, files, loaderBound, li, hk, hi, ai, trace,
             wrote, lenient>>

\* the variables no step of BaseImporter.run() touches
syncVars == <<scfg, store, collA, collB, collB0, spc, collA0, storeB, srun>>

notRun == <<call, procs, syncVars, gen, prep, dl, keys>>

vars == <<fileVars, runVars, call, procs, syncVars, gen, prep, dl, keys>>

\* ------------------------------------------------------------- FileLock
NoFile == [exists |-> FALSE, mtime |-> 0]
File(t) == [exists |-> TRUE, mtime |-> t]

\* a check() that still counts a marker of age locktime as fresh
FileLockCheckInclusive(m, t) == m.exists /\ (t - m.mtime) <= LockTime

\* FileLock.check() with astime=False
FileLockCheck(m, t) == m.exists /\ (t - m.mtime) < LockTime

\* FileLock.lock(force): the value returned
FileLockLockResult(m, t, force) == ~(FileLockCheck(m, t) /\ ~force)

\* a lock() that touches the marker before it looks at check()
FileLockLockMarkerTouchFirst(m, t, force) == File(t)

\* FileLock.lock(force): the marker afterwards (utime or create, both at t)
FileLockLockMarker(m, t, force) ==
    IF FileLockCheck(m, t) /\ ~force THEN m ELSE File(t)

\* FileLock.unlock(): the marker afterwards
FileLockUnlockMarker(m) == NoFile

\* --------------------------------------------------- BaseModelHandler
\* an actions queue that validates before it prepares
ActionsQueueValidateFirst == <<"validate", "prepare", "generate">>

\* BaseModelHandler.actions_queue
ActionsQueue == <<"prepare", "validate", "generate">>

\* ------------------------------------------------------- BaseImporter.run
\* exception classes a loader, hook, handler or store call can raise:
\* LockedModelHandlerException, any other Exception subclass, and a
\* BaseException that is not an Exception (KeyboardInterrupt, SystemExit)
ExcKinds == {"Locked", "Exception", "BaseException"}
Outcomes == {"ok"} \cup ExcKinds

\* "status = 0"
StatusInitial == 0

\* a status of its own for lock contention
StatusLockedDistinct == StatusInitial + 2

\* status set by "except LockedModelHandlerException"
StatusLocked == 1

\* an "except Exception" that leaves the status at 0
StatusFailedUnset == StatusInitial

\* status set by "except Exception"
StatusFailed == 1

Ev(name, i) == <<name, i>>

\* a step of the try body ends by raising e: control moves to the except
\* clauses
Raise(e, tr, why) ==
    /\ exc' = e
    /\ excAt' = Len(tr)
    /\ cause' = why
    /\ pc' = "except"

\* hooks, signals and handlers loop outside of "if generate:"
GenerateAlways == TRUE

\* "if generate:" guards the hooks, the signals and the handlers loop
GenerateEnabled == cfg.generate

\* "if download and files:"
DownloadEnabled == cfg.download /\ files

\* "if not data and lqueue:"
LoadersEnabled == data = {} /\ NumLoaders > 0

\* "if collection is not None:"
CollectionPresent(j) == j \in data

RunInit ==
    /\ cfg \in [lockable : BOOLEAN, generate : BOOLEAN, download : BOOLEAN]
    /\ now = LockTime
    /\ marker \in {NoFile} \cup {File(t) : t \in 0..LockTime}
    /\ marker0 = marker
    /\ pc = "lock"
    /\ locker = "unset"
    /\ lockResult = "notcalled"
    /\ exc = "none"
    /\ excAt = 0
    /\ cause = "none"
    /\ status = StatusInitial
    /\ returned = "no"
    /\ data \in SUBSET Handlers
    /\ files \in BOOLEAN
    /\ loaderBound = FALSE
    /\ li = 1
    /\ hk = 1
    /\ hi = 1
    /\ ai = 1
    /\ trace = <<>>
    /\ wrote = {}
    /\ lenient = FALSE

\* no run() is in progress
RunIdle ==
    /\ marker0 = NoFile
    /\ cfg = [lockable |-> FALSE, generate |-> FALSE, download |-> FALSE]
    /\ pc = "idle"
    /\ locker = "unset"
    /\ lockResult = "notcalled"
    /\ exc = "none"
    /\ excAt = 0
    /\ cause = "none"
    /\ status = StatusInitial
    /\ returned = "no"
    /\ data = {}
    /\ files = FALSE
    /\ loaderBound = FALSE
    /\ li = 1
    /\ hk = 1
    /\ hi = 1
    /\ ai = 1
    /\ trace = <<>>
    /\ wrote = {}
    /\ lenient = FALSE

\* no FileLock call has been made
NoCall == [op |-> "none", force |-> FALSE, result |-> FALSE,
           before |-> NoFile, at |-> 0]

CallIdle == call = NoCall

ProcIdle == [pc |-> "idle", saw |-> FALSE, acquired |-> FALSE,
             since |-> 0, late |-> FALSE]

ProcsIdle == procs = [p \in Procs |-> ProcIdle]

\* no staged data
SyncIdle ==
    /\ scfg = [strict_mode |-> [A |-> TRUE, B |-> TRUE],
               strict_mode_synchronize |-> FALSE,
               save_unchanged_objects |-> FALSE, natural_keys |-> FALSE,
               natural_fields |-> {"code"},
               related_is_pk |-> TRUE]
    /\ store = <<>>
    /\ collA = <<>>
    /\ collB = <<>>
    /\ collB0 = <<>>
    /\ spc = "idle"
    /\ collA0 = <<>>
    /\ storeB = <<>>
    /\ srun = [status |-> StatusInitial, raised |-> "none"]

\* no generate loop entered
NoPass == [k |-> 0, char |-> "", before |-> <<>>]

GenIdle ==
    gen = [run |-> 0, i |-> 0, writes |-> 0, vstore |-> <<>>,
           store1 |-> <<>>, same |-> FALSE, last |-> NoPass]

\* process_relation not called
PrepIdle ==
    prep = [fname |-> "", data |-> <<>>, data0 |-> <<>>, pc |-> "idle",
            values |-> <<>>, objs |-> <<>>, queries |-> <<>>, qi |-> 0]

\* no downloader constructed
DlIdle == dl = [pc |-> "idle"]

\* get_related_key not called
KeysIdle == keys = [pc |-> "idle"]

Init ==
    RunInit /\ CallIdle /\ ProcsIdle /\ SyncIdle /\ GenIdle /\ PrepIdle
        /\ DlIdle /\ KeysIdle

\* locker = FileLock(...) if self.lockable else None; locker.lock()
AcquireLock ==
    /\ pc = "lock"
    /\ IF cfg.lockable
       THEN /\ locker' = "filelock"
            /\ marker' = FileLockLockMarker(marker, now, FALSE)
            /\ trace' = Append(trace, Ev("lock", 0))
            /\ IF FileLockLockResult(marker, now, FALSE)
               THEN /\ lockResult' = "true"
                    /\ pc' = "load"
                    /\ UNCHANGED <<exc, excAt, cause>>
               ELSE /\ lockResult' = "false"
                    /\ Raise("Locked", trace', "lock")
       ELSE /\ locker' = "none"
            /\ pc' = "load"
            /\ UNCHANGED <<marker, lockResult, trace, exc, excAt, cause>>
    /\ UNCHANGED <<marker0, cfg, now, status, returned, data, files,
                   loaderBound, li, hk, hi, ai, wrote, lenient>>
    /\ UNCHANGED notRun

\* the loaders loop is skipped: data was given by the caller
SkipLoaders ==
    /\ pc = "load"
    /\ li = 1
    /\ ~LoadersEnabled
    /\ pc' = "download"
    /\ UNCHANGED <<marker0, cfg, marker, now, locker, lockResult, exc, excAt,
                   cause, status, returned, data, files, loaderBound, li, hk,
                   hi, ai, trace, wrote, lenient>>
    /\ UNCHANGED notRun

\* data, urls = loader.run(data, **options); urls and files.update(urls)
RunLoader ==
    /\ pc = "load"
    /\ li \in Loaders
    /\ li = 1 => LoadersEnabled
    /\ trace' = Append(trace, Ev("load", li))
    /\ loaderBound' = TRUE
    /\ \E o \in Outcomes :
         IF o = "ok"
         THEN /\ \E d \in SUBSET Handlers, urls \in BOOLEAN :
                   /\ data' = d
                   /\ files' = (files \/ urls)
              /\ li' = li + 1
              /\ pc' = IF li = NumLoaders THEN "download" ELSE "load"
              /\ UNCHANGED <<exc, excAt, cause>>
         ELSE /\ Raise(o, trace', "raised")
              /\ UNCHANGED <<data, files, li>>
    /\ UNCHANGED <<marker0, cfg, marker, now, locker, lockResult, status,
                   returned, hk, hi, ai, wrote, lenient>>
    /\ UNCHANGED notRun

\* "if download and files:" is false
SkipDownload ==
    /\ pc = "download"
    /\ ~DownloadEnabled
    /\ pc' = "generate?"
    /\ UNCHANGED <<marker0, cfg, marker, now, locker, lockResult, exc, excAt,
                   cause, status, returned, data, files, loaderBound, li, hk,
                   hi, ai, trace, wrote, lenient>>
    /\ UNCHANGED notRun

\* loader.download_media_handler(files) or self.download_media(files);
\* the name loader is unbound when the loaders loop did not run
Download ==
    /\ pc = "download"
    /\ DownloadEnabled
    /\ IF ~loaderBound
       THEN /\ Raise("Exception", trace, "unbound")
            /\ UNCHANGED trace
       ELSE /\ trace' = Append(trace, Ev("download", 0))
            /\ \E o \in Outcomes :
                 IF o = "ok"
                 THEN pc' = "generate?" /\ UNCHANGED <<exc, excAt, cause>>
                 ELSE Raise(o, trace', "raised")
    /\ UNCHANGED <<marker0, cfg, marker, now, locker, lockResult, status,
                   returned, data, files, loaderBound, li, hk, hi, ai, wrote,
                   lenient>>
    /\ UNCHANGED notRun

\* "if generate:" is false: the try body ends
SkipGenerate ==
    /\ pc = "generate?"
    /\ ~GenerateEnabled
    /\ pc' = "finally"
    /\ UNCHANGED <<marker0, cfg, marker, now, locker, lockResult, exc, excAt,
                   cause, status, returned, data, files, loaderBound, li, hk,
                   hi, ai, trace, wrote, lenient>>
    /\ UNCHANGED notRun

\* signals.importer_pre_launch.send(...)
PreLaunchSignal ==
    /\ pc = "generate?"
    /\ GenerateEnabled
    /\ trace' = Append(trace, Ev("pre_launch", 0))
    /\ \E o \in Outcomes :
         IF o = "ok"
         THEN pc' = "pre_run" /\ hk' = 1 /\ UNCHANGED <<exc, excAt, cause>>
         ELSE Raise(o, trace', "raised") /\ UNCHANGED hk
    /\ UNCHANGED <<marker0, cfg, marker, now, locker, lockResult, status,
                   returned, data, files, loaderBound, li, hi, ai, wrote,
                   lenient>>
    /\ UNCHANGED notRun

\* the k-th target of pre_run / post_run: the loaders, then the handlers
HookEvent(kind, k) ==
    IF k <= NumLoaders THEN Ev(kind \o "_loader", k)
                       ELSE Ev(kind \o "_handler", k - NumLoaders)

\* BaseImporter.pre_run: one loader.pre_run or handler.pre_run call
PreRunHook ==
    /\ pc = "pre_run"
    /\ hk <= NumLoaders + NumHandlers
    /\ trace' = Append(trace, HookEvent("pre_run", hk))
    /\ \E o \in Outcomes :
         IF o = "ok"
         THEN /\ IF hk = NumLoaders + NumHandlers
                 THEN pc' = "handlers" /\ hk' = 1
                 ELSE pc' = pc /\ hk' = hk + 1
              /\ UNCHANGED <<exc, excAt, cause>>
         ELSE Raise(o, trace', "raised") /\ UNCHANGED hk
    /\ UNCHANGED <<marker0, cfg, marker, now, locker, lockResult, status,
                   returned, data, files, loaderBound, li, hi, ai, wrote,
                   lenient>>
    /\ UNCHANGED notRun

\* for name, handler in hqueue: the collection is absent, the handler is
\* skipped
SkipHandler ==
    /\ pc = "handlers"
    /\ hi \in Handlers
    /\ ~CollectionPresent(hi)
    /\ hi' = hi + 1
    /\ UNCHANGED <<marker0, cfg, marker, now, pc, locker, lockResult, exc,
                   excAt, cause, status, returned, data, files, loaderBound,
                   li, hk, ai, trace, wrote, lenient>>
    /\ UNCHANGED notRun

\* self.synchronize(handler, data, **options): raises ValueError for an
\* unresolved hash reference when handler.strict_mode_synchronize (a class
\* attribute of the handler, read here)
Synchronize ==
    /\ pc = "handlers"
    /\ hi \in Handlers
    /\ CollectionPresent(hi)
    /\ trace' = Append(trace, Ev("synchronize", hi))
    /\ \E strict_mode_synchronize \in BOOLEAN, unresolved \in BOOLEAN,
          o \in Outcomes :
         IF strict_mode_synchronize /\ unresolved
         THEN Raise("Exception", trace', "synchronize") /\ UNCHANGED ai
         ELSE IF o = "ok"
              THEN /\ pc' = "actions"
                   /\ ai' = 1
                   /\ UNCHANGED <<exc, excAt, cause>>
              ELSE Raise(o, trace', "raised") /\ UNCHANGED ai
    /\ UNCHANGED <<marker0, cfg, marker, now, locker, lockResult, status,
                   returned, data, files, loaderBound, li, hk, hi, wrote,
                   lenient>>
    /\ UNCHANGED notRun

\* BaseModelHandler.run: the action after the one at position ai
NextAction ==
    IF ai = Len(ActionsQueue)
    THEN pc' = "handlers" /\ hi' = hi + 1 /\ ai' = 1
    ELSE pc' = pc /\ hi' = hi /\ ai' = ai + 1

\* BaseModelHandler.action_prepare
ActionPrepare ==
    /\ pc = "actions"
    /\ ActionsQueue[ai] = "prepare"
    /\ trace' = Append(trace, Ev("prepare", hi))
    /\ \E o \in Outcomes :
         IF o = "ok"
         THEN NextAction /\ UNCHANGED <<exc, excAt, cause>>
         ELSE Raise(o, trace', "raised") /\ UNCHANGED <<hi, ai>>
    /\ UNCHANGED <<marker0, cfg, marker, now, locker, lockResult, status,
                   returned, data, files, loaderBound, li, hk, wrote, lenient>>
    /\ UNCHANGED notRun

\* BaseModelHandler.action_validate: raises ValueError when strict_mode (a
\* class attribute of the handler, read here) and some item is invalid
ActionValidate ==
    /\ pc = "actions"
    /\ ActionsQueue[ai] = "validate"
    /\ trace' = Append(trace, Ev("validate", hi))
    /\ \E strict_mode \in BOOLEAN, isvalid \in BOOLEAN, o \in Outcomes :
         IF strict_mode /\ ~isvalid
         THEN /\ Raise("Exception", trace', "validate")
              /\ UNCHANGED <<hi, ai, lenient>>
         ELSE IF o = "ok"
              THEN /\ NextAction
                   /\ lenient' = (lenient \/ ~isvalid)
                   /\ UNCHANGED <<exc, excAt, cause>>
              ELSE Raise(o, trace', "raised") /\ UNCHANGED <<hi, ai, lenient>>
    /\ UNCHANGED <<marker0, cfg, marker, now, locker, lockResult, status,
                   returned, data, files, loaderBound, li, hk, wrote>>
    /\ UNCHANGED notRun

\* BaseModelHandler.action_generate: saves the valid items; an exception
\* of a save leaves the rows saved before it
ActionGenerate ==
    /\ pc = "actions"
    /\ ActionsQueue[ai] = "generate"
    /\ trace' = Append(trace, Ev("generate", hi))
    /\ \E o \in Outcomes :
         IF o = "ok"
         THEN /\ NextAction
              /\ wrote' = wrote \cup {hi}
              /\ UNCHANGED <<exc, excAt, cause>>
         ELSE /\ Raise(o, trace', "raised")
              /\ \E partial \in BOOLEAN :
                   wrote' = IF partial THEN wrote \cup {hi} ELSE wrote
              /\ UNCHANGED <<hi, ai>>
    /\ UNCHANGED <<marker0, cfg, marker, now, locker, lockResult, status,
                   returned, data, files, loaderBound, li, hk, lenient>>
    /\ UNCHANGED notRun

\* the handlers loop is over
EndHandlers ==
    /\ pc = "handlers"
    /\ hi = NumHandlers + 1
    /\ pc' = "post_run"
    /\ hk' = 1
    /\ UNCHANGED <<marker0, cfg, marker, now, locker, lockResult, exc, excAt,
                   cause, status, returned, data, files, loaderBound, li, hi,
                   ai, trace, wrote, lenient>>
    /\ UNCHANGED notRun

\* BaseImporter.post_run: one loader.post_run or handler.post_run call
PostRunHook ==
    /\ pc = "post_run"
    /\ hk <= NumLoaders + NumHandlers
    /\ trace' = Append(trace, HookEvent("post_run", hk))
    /\ \E o \in Outcomes :
         IF o = "ok"
         THEN /\ IF hk = NumLoaders + NumHandlers
                 THEN pc' = "post_launch" /\ hk' = 1
                 ELSE pc' = pc /\ hk' = hk + 1
              /\ UNCHANGED <<exc, excAt, cause>>
         ELSE Raise(o, trace', "raised") /\ UNCHANGED hk
    /\ UNCHANGED <<marker0, cfg, marker, now, locker, lockResult, status,
                   returned, data, files, loaderBound, li, hi, ai, wrote,
                   lenient>>
    /\ UNCHANGED notRun

\* signals.importer_post_launch.send(...)
PostLaunchSignal ==
    /\ pc = "post_launch"
    /\ trace' = Append(trace, Ev("post_launch", 0))
    /\ \E o \in Outcomes :
         IF o = "ok"
         THEN pc' = "finally" /\ UNCHANGED <<exc, excAt, cause>>
         ELSE Raise(o, trace', "raised")
    /\ UNCHANGED <<marker0, cfg, marker, now, locker, lockResult, status,
                   returned, data, files, loaderBound, li, hk, hi, ai, wrote,
                   lenient>>
    /\ UNCHANGED notRun

\* except LockedModelHandlerException: the banner calls locker.check(),
\* which raises AttributeError when locker is None
ExceptLocked ==
    /\ pc = "except"
    /\ exc = "Locked"
    /\ IF locker = "none"
       THEN exc' = "AttributeError" /\ UNCHANGED <<status, locker>>
       ELSE exc' = "handled" /\ status' = StatusLocked /\ locker' = "none"
    /\ pc' = "finally"
    /\ UNCHANGED <<marker0, cfg, marker, now, lockResult, excAt, cause,
                   returned, data, files, loaderBound, li, hk, hi, ai, trace,
                   wrote, lenient>>
    /\ UNCHANGED notRun

\* an "except Exception" placed around the handlers loop only: the run
\* goes on with post_run
ExceptExceptionResume ==
    /\ pc = "except"
    /\ exc = "Exception"
    /\ exc' = "handled"
    /\ status' = StatusFailed
    /\ pc' = "post_run"
    /\ hk' = 1
    /\ UNCHANGED <<marker0, cfg, marker, now, locker, lockResult, excAt,
                   cause, returned, data, files, loaderBound, li, hi, ai,
                   trace, wrote, lenient>>
    /\ UNCHANGED notRun

\* except Exception
ExceptException ==
    /\ pc = "except"
    /\ exc = "Exception"
    /\ exc' = "handled"
    /\ status' = StatusFailed
    /\ pc' = "finally"
    /\ UNCHANGED <<marker0, cfg, marker, now, locker, lockResult, excAt,
                   cause, returned, data, files, loaderBound, li, hk, hi, ai,
                   trace, wrote, lenient>>
    /\ UNCHANGED notRun

\* no except clause matches a BaseException that is not an Exception
ExceptUncaught ==
    /\ pc = "except"
    /\ exc = "BaseException"
    /\ pc' = "finally"
    /\ UNCHANGED <<marker0, cfg, marker, now, locker, lockResult, exc, excAt,
                   cause, status, returned, data, files, loaderBound, li, hk,
                   hi, ai, trace, wrote, lenient>>
    /\ UNCHANGED notRun

\* finally: if locker: locker.unlock()
Finally ==
    /\ pc = "finally"
    /\ IF locker = "filelock"
       THEN /\ marker' = FileLockUnlockMarker(marker)
            /\ trace' = Append(trace, Ev("unlock", 0))
       ELSE UNCHANGED <<marker, trace>>
    /\ pc' = IF exc \in {"none", "handled"} THEN "finish" ELSE "propagate"
    /\ UNCHANGED <<marker0, cfg, now, locker, lockResult, exc, excAt, cause,
                   status, returned, data, files, loaderBound, li, hk, hi, ai,
                   wrote, lenient>>
    /\ UNCHANGED notRun

\* the FINISHED log line, finallog and "return status"
Finish ==
    /\ pc = "finish"
    /\ trace' = Append(trace, Ev("finish", 0))
    /\ returned' = "status"
    /\ pc' = "done"
    /\ UNCHANGED <<marker0, cfg, marker, now, locker, lockResult, exc, excAt,
                   cause, status, data, files, loaderBound, li, hk, hi, ai,
                   wrote, lenient>>
    /\ UNCHANGED notRun

\* the exception no clause handled leaves run()
Propagate ==
    /\ pc = "propagate"
    /\ returned' = "raised"
    /\ pc' = "done"
    /\ UNCHANGED <<marker0, cfg, marker, now, locker, lockResult, exc, excAt,
                   cause, status, data, files, loaderBound, li, hk, hi, ai,
                   trace, wrote, lenient>>
    /\ UNCHANGED notRun

Next ==
    \/ AcquireLock
    \/ SkipLoaders
    \/ RunLoader
    \/ SkipDownload
    \/ Download
    \/ SkipGenerate
    \/ PreLaunchSignal
    \/ PreRunHook
    \/ SkipHandler
    \/ Synchronize
    \/ ActionPrepare
    \/ ActionValidate
    \/ ActionGenerate
    \/ EndHandlers
    \/ PostRunHook
    \/ PostLaunchSignal
    \/ ExceptLocked
    \/ ExceptException
    \/ ExceptUncaught
    \/ Finally
    \/ Finish
    \/ Propagate

Spec == Init /\ [][Next]_vars

\* ----------------------------------------- FileLock called by one caller
\* the variables no FileLock call of the single caller touches
notCall == <<runVars, procs, syncVars, gen, prep, dl, keys>>

FileLockInit ==
    /\ marker = NoFile
    /\ now = 0
    /\ CallIdle
    /\ RunIdle
    /\ ProcsIdle
    /\ SyncIdle
    /\ GenIdle
    /\ PrepIdle
    /\ DlIdle
    /\ KeysIdle

\* FileLock.lock(force)
CallLock ==
    /\ \E force \in BOOLEAN :
         /\ marker' = FileLockLockMarker(marker, now, force)
         /\ call' = [op |-> "lock", force |-> force,
                     result |-> FileLockLockResult(marker, now, force),
                     before |-> marker, at |-> now]
    /\ UNCHANGED now
    /\ UNCHANGED notCall

\* FileLock.unlock()
CallUnlock ==
    /\ marker' = FileLockUnlockMarker(marker)
    /\ call' = [op |-> "unlock", force |-> FALSE, result |-> FALSE,
                before |-> marker, at |-> now]
    /\ UNCHANGED now
    /\ UNCHANGED notCall

\* FileLock.update(): refreshes a marker that check() finds fresh
CallUpdate ==
    /\ marker' = IF FileLockCheck(marker, now) /\ marker.exists
                 THEN File(now) ELSE marker
    /\ call' = [op |-> "update", force |-> FALSE,
                result |-> (FileLockCheck(marker, now) /\ marker.exists),
                before |-> marker, at |-> now]
    /\ UNCHANGED now
    /\ UNCHANGED notCall

\* time passes between two calls
CallTick ==
    /\ now < MaxTime
    /\ now' = now + 1
    /\ UNCHANGED <<marker, call>>
    /\ UNCHANGED notCall

FileLockNext ==
    \/ CallLock
    \/ CallUnlock
    \/ CallUpdate
    \/ CallTick

SpecFileLock == FileLockInit /\ [][FileLockNext]_vars

\* --------------------------- importer processes racing for the lock file
\* Each process executes the lock protocol of BaseImporter.run(): lock(),
\* the try body, and unlock() in the finally block.  The calls of os.path
\* and os are the atomic steps.  The check() calls made only to fill the
\* log banners read the file and change nothing; they are left out.
notRace == <<runVars, call, syncVars, gen, prep, dl, keys>>

LockRaceInit ==
    /\ marker = NoFile
    /\ now = 0
    /\ ProcsIdle
    /\ CallIdle
    /\ RunIdle
    /\ SyncIdle
    /\ GenIdle
    /\ PrepIdle
    /\ DlIdle
    /\ KeysIdle

Goto(p, where) == procs' = [procs EXCEPT ![p].pc = where]

\* run() is entered (again): locker = FileLock(...); locker.lock()
ProcStart(p) ==
    /\ procs[p].pc \in {"idle", "done"}
    /\ procs' = [procs EXCEPT ![p] = [ProcIdle EXCEPT !.pc = "check_exists"]]
    /\ UNCHANGED <<marker, now>>
    /\ UNCHANGED notRace

\* check(): os.path.exists(lockname); without a file check() is False and
\* lock() goes on
ProcCheckExists(p) ==
    /\ procs[p].pc = "check_exists"
    /\ procs' = [procs EXCEPT
                   ![p].saw = marker.exists,
                   ![p].pc = IF marker.exists THEN "check_mtime"
                                              ELSE "lock_exists"]
    /\ UNCHANGED <<marker, now>>
    /\ UNCHANGED notRace

\* check(): time.time() - os.path.getmtime(lockname), OSError when the file
\* is gone; a fresh marker makes lock() return False
ProcCheckMtime(p) ==
    /\ procs[p].pc = "check_mtime"
    /\ Goto(p, IF ~marker.exists THEN "failed"
               ELSE IF now - marker.mtime < LockTime THEN "locked"
               ELSE "lock_exists")
    /\ UNCHANGED <<marker, now>>
    /\ UNCHANGED notRace

\* lock(): os.path.exists(lockname)
ProcLockExists(p) ==
    /\ procs[p].pc = "lock_exists"
    /\ procs' = [procs EXCEPT
                   ![p].saw = marker.exists,
                   ![p].pc = IF marker.exists THEN "lock_utime"
                                              ELSE "lock_create"]
    /\ UNCHANGED <<marker, now>>
    /\ UNCHANGED notRace

\* lock(): os.utime(lockname, None), OSError when the file is gone
ProcLockUtime(p) ==
    /\ procs[p].pc = "lock_utime"
    /\ IF marker.exists
       THEN /\ marker' = File(now)
            /\ procs' = [procs EXCEPT ![p].pc = "work",
                                      ![p].acquired = TRUE,
                                      ![p].since = now]
       ELSE /\ Goto(p, "failed")
            /\ UNCHANGED marker
    /\ UNCHANGED now
    /\ UNCHANGED notRace

\* lock(): open(lockname, 'a').close() creates the file; a file that
\* appeared in the meantime is opened and keeps its mtime
ProcLockCreate(p) ==
    /\ procs[p].pc = "lock_create"
    /\ marker' = IF marker.exists THEN marker ELSE File(now)
    /\ procs' = [procs EXCEPT ![p].pc = "work",
                              ![p].acquired = TRUE,
                              ![p].since = now]
    /\ UNCHANGED now
    /\ UNCHANGED notRace

\* lock() returned False: LockedModelHandlerException, locker = None, the
\* finally block does nothing
ProcLocked(p) ==
    /\ procs[p].pc = "locked"
    /\ Goto(p, "done")
    /\ UNCHANGED <<marker, now>>
    /\ UNCHANGED notRace

\* lock() raised OSError: "except Exception", and the finally block calls
\* locker.unlock()
ProcFailed(p) ==
    /\ procs[p].pc = "failed"
    /\ Goto(p, "unlock_exists")
    /\ UNCHANGED <<marker, now>>
    /\ UNCHANGED notRace

\* the try body after lock() returned True, up to the finally block
ProcWork(p) ==
    /\ procs[p].pc = "work"
    /\ Goto(p, "unlock_exists")
    /\ UNCHANGED <<marker, now>>
    /\ UNCHANGED notRace

\* unlock(): os.path.exists(lockname)
ProcUnlockExists(p) ==
    /\ procs[p].pc = "unlock_exists"
    /\ procs' = [procs EXCEPT
                   ![p].saw = marker.exists,
                   ![p].pc = IF marker.exists THEN "unlock_unlink"
                                              ELSE "done",
                   ![p].acquired = IF marker.exists THEN @ ELSE FALSE]
    /\ UNCHANGED <<marker, now>>
    /\ UNCHANGED notRace

\* unlock(): os.unlink(lockname), OSError (out of run()) when the file is
\* gone
ProcUnlockUnlink(p) ==
    /\ procs[p].pc = "unlock_unlink"
    /\ marker' = NoFile
    /\ procs' = [procs EXCEPT ![p].pc = "done", ![p].acquired = FALSE]
    /\ UNCHANGED now
    /\ UNCHANGED notRace

\* a second passes; a run still holding the lock a staleness window after
\* it acquired it is late
ProcTick ==
    /\ now < MaxTime
    /\ now' = now + 1
    /\ procs' = [p \in Procs |->
                   IF procs[p].acquired /\ now' - procs[p].since >= LockTime
                   THEN [procs[p] EXCEPT !.late = TRUE]
                   ELSE procs[p]]
    /\ UNCHANGED marker
    /\ UNCHANGED notRace

LockRaceNext ==
    \/ \E p \in Procs : ProcStart(p)
    \/ \E p \in Procs : ProcCheckExists(p)
    \/ \E p \in Procs : ProcCheckMtime(p)
    \/ \E p \in Procs : ProcLockExists(p)
    \/ \E p \in Procs : ProcLockUtime(p)
    \/ \E p \in Procs : ProcLockCreate(p)
    \/ \E p \in Procs : ProcLocked(p)
    \/ \E p \in Procs : ProcFailed(p)
    \/ \E p \in Procs : ProcWork(p)
    \/ \E p \in Procs : ProcUnlockExists(p)
    \/ \E p \in Procs : ProcUnlockUnlink(p)
    \/ ProcTick

SpecLockRace == LockRaceInit /\ [][LockRaceNext]_vars

\* ------------------------- handler of "A", then synchronize of "B"
\* Two collections are staged: "A", whose model has a unique column `code`,
\* and "B", whose model points at A through a foreign key `owner`, a
\* many-to-many `tags` and a plain column `ref`.

\* values a loader stages under a field: a scalar, {'__hash__': h}, or a
\* filter dict without '__hash__'
Scalar(n) == [t |-> "scalar", v |-> n]

HashRef(h) == [t |-> "hash", v |-> h]

FilterDict(c) == [t |-> "filter", v |-> c]

\* an exception leaving get_synchronized_value
Raised == [t |-> "raised", v |-> 0]

\* every value that is not a filter mapping passes for a wrapper
IsHashWrapperOrScalar(val) == val.t \in {"hash", "scalar"}

\* isinstance(val, dict) and '__hash__' in val
IsHashWrapper(val) == val.t = "hash"

\* field.remote_field of B's three fields
FieldKind(fname) ==
    CASE fname = "owner" -> "fk"
      [] fname = "tags" -> "m2m"
      [] OTHER -> "direct"

FieldNames == {"owner", "tags", "ref"}

\* the '__hash__' values the loaders hand out
Hashes == {1, 2}

\* the code of the k-th staged item of A, and of the row A's table holds
\* before the run
ItemCode(k) == 10 + k

\* the item's cleaned data: a value for each field of the handler's form,
\* code and name; the model has a third column, note, outside the form
ItemRow(item) == [code |-> item.code, name |-> item.name]

ExistingRow == [id |-> 1, code |-> 10, name |-> 0, note |-> 1]

\* A's table before the run
ExistingStore ==
    (ExistingRow.id :> [code |-> ExistingRow.code, name |-> ExistingRow.name,
                        note |-> ExistingRow.note])

\* the item's '__hash__' and 'pk' keys: 0 when the key is absent
AItems ==
    [hash : {0} \cup Hashes, pk : {0, ExistingRow.id}, ok : BOOLEAN]

\* a staged item before validation: 'valid', 'cleaned' and 'changed' are
\* not set yet; instance is the row validate_item bound the form to
Staged(hash, pk, ok, code, name) ==
    [hash |-> hash, pk |-> pk, ok |-> ok, code |-> code, name |-> name,
     valid |-> FALSE, instance |-> 0, cleaned_pk |-> 0, changed |-> FALSE]

StagedA(k, i) == Staged(i.hash, i.pk, i.ok, ItemCode(k), 0)

\* lists of at most two staged values
ValueLists(S) ==
    {<<>>} \cup {<<x>> : x \in S} \cup {<<x, y>> : x \in S, y \in S}

BValues(fname) ==
    LET refs == {HashRef(h) : h \in Hashes}
    IN  CASE FieldKind(fname) = "fk" ->
                 refs \cup {Scalar(ExistingRow.id), FilterDict(ExistingRow.code)}
          [] FieldKind(fname) = "m2m" ->
                 ValueLists(refs \cup {Scalar(ExistingRow.id)})
          [] OTHER -> refs \cup {Scalar(ExistingRow.id)}

\* the keys of the staged data, and the collection names an item's
\* 'hash_related' may carry: "C" is a collection the data does not hold
StagedKeys == {"A", "B"}

RelatedNames == {"A", "C"}

\* an item of B carrying one field, declared in 'hash_related' or not, or
\* declaring in 'hash_related' a field it does not carry
BItems ==
    UNION {{[hash_related |-> hr, fields |-> (fname :> val),
             valid |-> FALSE] :
                hr \in {<<>>} \cup {(fname :> c) : c \in RelatedNames},
                val \in BValues(fname)}
           \cup {[hash_related |-> (fname :> "A"), fields |-> <<>>,
                   valid |-> FALSE]} :
           fname \in FieldNames}

SyncInit ==
    /\ scfg \in [strict_mode : {[A |-> TRUE, B |-> TRUE]},
                 strict_mode_synchronize : {FALSE},
                 save_unchanged_objects : {FALSE}, natural_keys : {FALSE},
                 natural_fields : {{"code"}},
                 related_is_pk : BOOLEAN]
    /\ store = ExistingStore
    /\ collA \in {[k \in 1..NumAItems |-> StagedA(k, s[k])] :
                     s \in [1..NumAItems -> AItems]}
    /\ collA0 = collA
    /\ collB = <<>>
    /\ collB0 = <<>>
    /\ storeB = <<>>
    /\ srun = [status |-> StatusInitial, raised |-> "none"]
    /\ spc = "handlerA"
    /\ marker = NoFile
    /\ now = 0
    /\ RunIdle
    /\ CallIdle
    /\ ProcsIdle
    /\ GenIdle
    /\ PrepIdle
    /\ DlIdle
    /\ KeysIdle

\* the variables the handler and synchronize do not touch
notSync == <<fileVars, runVars, call, procs, gen, prep, dl, keys>>

\* the values the form's fields start from when no instance is bound: the
\* columns' defaults
DefaultRow == [code |-> 0, name |-> 0, note |-> 0]

\* the row assigns the cleaned data's fields the cleaned data's values
HoldsData(row, cleaned) == \A f \in DOMAIN cleaned : row[f] = cleaned[f]

\* objects.filter(...).first(): the matching row of least pk, 0 for none
First(ids) ==
    IF ids = {} THEN 0
    ELSE CHOOSE id \in ids : \A other \in ids : id <= other

\* the filter get_instance_from_data builds from the natural keys the
\* handler declares: a key of falsy value is left out
NaturalKeyFilter(item) ==
    {f \in scfg.natural_fields : ItemRow(item)[f] # 0}

\* get_instance_from_data: the row the item's 'pk' names; without a 'pk',
\* the first row matching the filter of natural keys, when natural keys
\* are declared and the filter is not empty; 0 for no row
GetInstanceFromData(st, item) ==
    IF item.pk # 0
    THEN First({id \in DOMAIN st : id = item.pk})
    ELSE IF scfg.natural_keys /\ NaturalKeyFilter(item) # {}
    THEN First({id \in DOMAIN st :
                   \A f \in NaturalKeyFilter(item) :
                       st[id][f] = ItemRow(item)[f]})
    ELSE 0

\* form.has_changed(): the data differ from the instance's values, or from
\* the defaults when the form is bound to no instance
HasChanged(st, instance, item) ==
    ~HoldsData(IF instance # 0 THEN st[instance] ELSE DefaultRow,
               ItemRow(item))

\* validate_item: the form accepts the item or not
ValidateItem(st, item) ==
    LET instance == GetInstanceFromData(st, item)
    IN  IF item.ok
        THEN [item EXCEPT
                 !.valid = TRUE,
                 !.instance = instance,
                 !.cleaned_pk = IF instance # 0 THEN instance ELSE item.pk,
                 !.changed = HasChanged(st, instance, item)]
        ELSE [item EXCEPT !.valid = FALSE, !.instance = instance]

\* require_to_save_object
RequireToSaveObject(item) == item.changed \/ scfg.save_unchanged_objects

\* the original deserializer's save: the deserialized object replaces the
\* row, columns outside the data falling back to their defaults
MergeModelInstancesAll(src, dst, fields) ==
    [c \in DOMAIN dst |-> IF c \in DOMAIN src THEN src[c] ELSE DefaultRow[c]]

\* merge_model_instances: setattr(dst, name, getattr(src, name)) for the
\* names in fields; dst keeps its other columns
MergeModelInstances(src, dst, fields) ==
    [c \in DOMAIN dst |-> IF c \in fields THEN src[c] ELSE dst[c]]

\* get_deserialized_object: the row of the pk merged with the cleaned
\* data's fields (the model has no many-to-many field), or, for no such
\* row, the deserialized object itself
GetDeserializedObject(cleaned, id, st) ==
    IF id \in DOMAIN st
    THEN MergeModelInstances(cleaned, st[id], DOMAIN cleaned)
    ELSE [c \in DOMAIN DefaultRow |->
             IF c \in DOMAIN cleaned THEN cleaned[c] ELSE DefaultRow[c]]

\* the primary key the table gives a row saved without one
NextId(st) ==
    IF DOMAIN st = {} THEN 1
    ELSE 1 + (CHOOSE m \in DOMAIN st : \A other \in DOMAIN st : other <= m)

\* one pass of the loop of action_generate, over a valid item: the write is
\* skipped, or the item is saved over the row of its pk ("."), or as a new
\* row ("+"); the row's pk is written back into the item
GenerateItem(i, st) ==
    LET id == IF i.cleaned_pk # 0 THEN i.cleaned_pk ELSE NextId(st)
    IN  IF ~RequireToSaveObject(i)
        THEN [item |-> [i EXCEPT !.pk = i.cleaned_pk], store |-> st,
              char |-> "-"]
        ELSE [item |-> [i EXCEPT !.pk = id],
              store |-> IF id \in DOMAIN st
                        THEN [st EXCEPT ![id] =
                                 GetDeserializedObject(ItemRow(i), id, st)]
                        ELSE st @@ (id :> GetDeserializedObject(ItemRow(i),
                                                                id, st)),
              char |-> IF id \in DOMAIN st THEN "." ELSE "+"]

RECURSIVE GenerateFromAll(_, _, _)
GenerateFromAll(k, items, st) ==
    IF k > Len(items)
    THEN [items |-> items, store |-> st]
    ELSE LET g == GenerateItem([items[k] EXCEPT !.changed = TRUE], st)
         IN  GenerateFromAll(k + 1, [items EXCEPT ![k] = g.item], g.store)

\* action_generate from the k-th item on: invalid items are left out
RECURSIVE GenerateFrom(_, _, _)
GenerateFrom(k, items, st) ==
    IF k > Len(items)
    THEN [items |-> items, store |-> st]
    ELSE IF ~items[k].valid
    THEN GenerateFrom(k + 1, items, st)
    ELSE LET g == GenerateItem(items[k], st)
         IN  GenerateFrom(k + 1, [items EXCEPT ![k] = g.item], g.store)

\* the union of the items' 'hash_related' entries
HashRelated(collection) ==
    UNION {{<<fname, collection[n].hash_related[fname]>> :
                fname \in DOMAIN collection[n].hash_related} :
           n \in DOMAIN collection}

\* dict([(i['__hash__'], i) for i in data[r] if '__hash__' in i]): of the
\* items sharing a hash the dict keeps the last one
HashedIndex(items) ==
    [h \in {items[k].hash : k \in DOMAIN items} \ {0} |->
        items[CHOOSE k \in DOMAIN items :
                  /\ items[k].hash = h
                  /\ \A later \in DOMAIN items :
                         items[later].hash = h => later <= k]]

\* rvalue.get(h, None)
IndexGet(rvalue, h) ==
    IF h \in DOMAIN rvalue
    THEN [found |-> TRUE, pk |-> rvalue[h].pk]
    ELSE [found |-> FALSE, pk |-> 0]

\* field.remote_field.get_related_field() of owner and tags; None for ref
RelatedField(fname) ==
    IF FieldKind(fname) = "direct" THEN "none"
    ELSE IF scfg.related_is_pk THEN "pk" ELSE "code"

GetSynchronizedValueLenient(rfield, elem, hashed_value, strict_mode, st) ==
    IF ~elem.found \/ elem.pk = 0
    THEN hashed_value
    ELSE IF rfield = "code"
    THEN IF elem.pk \in DOMAIN st THEN Scalar(st[elem.pk].code) ELSE Raised
    ELSE Scalar(elem.pk)

\* get_synchronized_value; objects.get(pk=...) raises when the row is gone
GetSynchronizedValue(rfield, elem, hashed_value, strict_mode, st) ==
    IF ~elem.found \/ elem.pk = 0
    THEN IF strict_mode THEN Raised ELSE hashed_value
    ELSE IF rfield = "code"
    THEN IF elem.pk \in DOMAIN st THEN Scalar(st[elem.pk].code) ELSE Raised
    ELSE Scalar(elem.pk)

\* the loop over a many-to-many list from position key on, in place; it
\* stops where get_synchronized_value raises
RECURSIVE SynchronizeList(_, _, _, _, _, _)
SynchronizeList(key, value, rfield, rvalue, strict_mode, st) ==
    IF key > Len(value)
    THEN [value |-> value, raised |-> FALSE]
    ELSE IF ~IsHashWrapper(value[key])
    THEN SynchronizeList(key + 1, value, rfield, rvalue, strict_mode, st)
    ELSE LET got == GetSynchronizedValue(
                        rfield, IndexGet(rvalue, value[key].v), value[key],
                        strict_mode, st)
         IN  IF got = Raised
             THEN [value |-> value, raised |-> TRUE]
             ELSE SynchronizeList(key + 1, [value EXCEPT ![key] = got],
                                  rfield, rvalue, strict_mode, st)

\* one 'hash_related' entry of one item; item['fields'][fname] raises
\* KeyError when the item has no such field
SynchronizeField(item, fname, rvalue, strict_mode, st) ==
    IF fname \notin DOMAIN item.fields
    THEN [item |-> item, raised |-> TRUE]
    ELSE LET value == item.fields[fname]
             rfield == RelatedField(fname)
         IN  IF FieldKind(fname) = "m2m"
             THEN LET r == SynchronizeList(1, value, rfield, rvalue,
                                           strict_mode, st)
                  IN  [item |-> [item EXCEPT !.fields[fname] = r.value],
                       raised |-> r.raised]
             ELSE IF ~IsHashWrapper(value)
             THEN [item |-> item, raised |-> FALSE]
             ELSE LET got == GetSynchronizedValue(
                                 rfield, IndexGet(rvalue, value.v), value,
                                 strict_mode, st)
                  IN  IF got = Raised
                      THEN [item |-> item, raised |-> TRUE]
                      ELSE [item |-> [item EXCEPT !.fields[fname] = got],
                            raised |-> FALSE]

\* the 'hash_related' entries of one item, one after the other
RECURSIVE SynchronizeItem(_, _, _, _, _)
SynchronizeItem(item, todo, rvalue, strict_mode, st) ==
    IF todo = {}
    THEN [item |-> item, raised |-> FALSE]
    ELSE LET fname == CHOOSE f \in todo : TRUE
             r == SynchronizeField(item, fname, rvalue, strict_mode, st)
         IN  IF r.raised
             THEN r
             ELSE SynchronizeItem(r.item, todo \ {fname}, rvalue,
                                  strict_mode, st)

\* the loop over the collection from item n on
RECURSIVE SynchronizeFrom(_, _, _, _, _)
SynchronizeFrom(n, collection, rvalue, strict_mode, st) ==
    IF n > Len(collection)
    THEN [collection |-> collection, raised |-> FALSE]
    ELSE LET r == SynchronizeItem(collection[n],
                                  DOMAIN collection[n].hash_related,
                                  rvalue, strict_mode, st)
             done == [collection EXCEPT ![n] = r.item]
         IN  IF r.raised
             THEN [collection |-> done, raised |-> TRUE]
             ELSE SynchronizeFrom(n + 1, done, rvalue, strict_mode, st)

\* BaseImporter.synchronize of a collection: building `hashed` reads
\* data[r] for every collection r the entries name and raises KeyError for
\* one the data does not hold; the entries that remain all name "A"
SynchronizeCollection(collection, dataA, strict_mode, st) ==
    IF HashRelated(collection) = {}
    THEN [collection |-> collection, raised |-> FALSE]
    ELSE IF \E entry \in HashRelated(collection) : entry[2] \notin StagedKeys
    THEN [collection |-> collection, raised |-> TRUE]
    ELSE SynchronizeFrom(1, collection, HashedIndex(dataA), strict_mode, st)

\* the except clause of run() for an exception that left the named step
Failed(step) == [status |-> StatusFailed, raised |-> step]

\* a run inside a transaction: the rows are those before the run
StoreRolledBack(st) == ExistingStore

\* the rows of the handlers before, after the except clause of run(): it
\* logs and sets the status
StoreOnAbort(st) == st

ValidationNeverRaises(strict_mode, isvalid) == FALSE

\* action_validate raises after all items went through validate_item
ValidationRaises(strict_mode, isvalid) == strict_mode /\ ~isvalid

\* the handlers loop for A: synchronize returns at once, A declaring no
\* 'hash_related'; then prepare (A has no relations), validate, generate.
\* A's handler class keeps or overrides strict_mode.
HandlerRunA ==
    /\ spc = "handlerA"
    /\ \E strict_mode \in BOOLEAN :
         LET validated ==
                 [k \in DOMAIN collA |-> ValidateItem(store, collA[k])]
             isvalid == \A k \in DOMAIN validated : validated[k].valid
             generated == GenerateFrom(1, validated, store)
         IN  /\ scfg' = [scfg EXCEPT !.strict_mode.A = strict_mode]
             /\ IF ValidationRaises(strict_mode, isvalid)
                THEN /\ collA' = validated
                     /\ store' = store
                     /\ srun' = Failed("validate A")
                     /\ spc' = "raised"
                ELSE /\ collA' = generated.items
                     /\ store' = generated.store
                     /\ srun' = srun
                     /\ spc' = "synchronizeB"
    /\ UNCHANGED <<collB, collB0, collA0, storeB>>
    /\ UNCHANGED notSync

\* the handlers loop for B, up to the return of synchronize: data["B"] is
\* the item the loaders staged, B's handler class keeps or overrides
\* strict_mode_synchronize
SynchronizeB ==
    /\ spc = "synchronizeB"
    /\ \E b \in BItems, strict_mode_synchronize \in BOOLEAN :
         LET r == SynchronizeCollection(<<b>>, collA,
                                        strict_mode_synchronize, store)
         IN  /\ scfg' = [scfg EXCEPT
                            !.strict_mode_synchronize =
                                strict_mode_synchronize]
             /\ collB0' = <<b>>
             /\ collB' = r.collection
             /\ srun' = IF r.raised THEN Failed("synchronize") ELSE srun
             /\ spc' = IF r.raised THEN "raised" ELSE "synced"
             /\ store' = IF r.raised THEN StoreOnAbort(store) ELSE store
    /\ UNCHANGED <<collA, collA0, storeB>>
    /\ UNCHANGED notSync

\* objects.filter(**query) inside get_related_values: a query made of a
\* hash wrapper names no column of the model and the store rejects it
\* (FieldError); a filter dict on `code` finds a row or none
QueryRaises(val) == IsHashWrapper(val)

QueryFirst(val, st) == First({id \in DOMAIN st : st[id].code = val.v})

\* process_relation for one value: scalars stay, a filter dict becomes the
\* related-field value of the row it finds
PreparedValue(val, rfield, st) ==
    IF val.t = "filter" /\ QueryFirst(val, st) # 0
    THEN Scalar(IF rfield = "code" THEN st[QueryFirst(val, st)].code
                ELSE QueryFirst(val, st))
    ELSE val

\* the values process_relation collects for a relation field of an item
RelationValues(item, fname) ==
    IF fname \notin DOMAIN item.fields THEN {}
    ELSE IF FieldKind(fname) = "m2m"
    THEN {item.fields[fname][p] : p \in DOMAIN item.fields[fname]}
    ELSE {item.fields[fname]}

\* action_prepare of B over its relation fields owner and tags
PrepareRaises(item) ==
    \E fname \in {f \in FieldNames : FieldKind(f) # "direct"} :
        \E val \in RelationValues(item, fname) : QueryRaises(val)

PrepareItem(item, st) ==
    [item EXCEPT !.fields =
        [fname \in DOMAIN item.fields |->
            IF FieldKind(fname) = "m2m"
            THEN [p \in DOMAIN item.fields[fname] |->
                     PreparedValue(item.fields[fname][p],
                                   RelatedField(fname), st)]
            ELSE IF FieldKind(fname) = "fk"
            THEN PreparedValue(item.fields[fname], RelatedField(fname), st)
            ELSE item.fields[fname]]]

\* the form of B rejects an item one of whose fields still holds a dict
FormAccepts(item) ==
    \A fname \in DOMAIN item.fields :
        IF FieldKind(fname) = "m2m"
        THEN \A p \in DOMAIN item.fields[fname] :
                 item.fields[fname][p].t = "scalar"
        ELSE item.fields[fname].t = "scalar"

\* the original statement of the save: any action of the queue saves
SavedByAnyAction(action, rows, st) == st \o rows

\* the rows of B's table after an action of the queue: only
\* action_generate calls save_deserialized_object
SavedBy(action, rows, st) == IF action = "generate" THEN st \o rows ELSE st

\* the valid items of a collection, in order
ValidItems(items) ==
    SelectSeq([n \in DOMAIN items |-> items[n]], LAMBDA i : i.valid)

\* the handlers loop for B after synchronize returned, action_prepare
PrepareB ==
    /\ spc = "synced"
    /\ LET prepared == [n \in DOMAIN collB |-> PrepareItem(collB[n], store)]
       IN  IF \E n \in DOMAIN collB : PrepareRaises(collB[n])
           THEN /\ collB' = collB
                /\ storeB' = storeB
                /\ store' = StoreOnAbort(store)
                /\ srun' = Failed("prepare")
                /\ spc' = "raised"
           ELSE /\ collB' = prepared
                /\ storeB' = SavedBy("prepare", ValidItems(prepared), storeB)
                /\ store' = store
                /\ srun' = srun
                /\ spc' = "validateB"
    /\ UNCHANGED <<scfg, collA, collA0, collB0>>
    /\ UNCHANGED notSync

\* action_validate of B; B's handler class keeps or overrides strict_mode
ValidateB ==
    /\ spc = "validateB"
    /\ \E strict_mode \in BOOLEAN :
         LET validated ==
                 [n \in DOMAIN collB |->
                     [collB[n] EXCEPT !.valid = FormAccepts(collB[n])]]
             isvalid == \A n \in DOMAIN validated : validated[n].valid
         IN  /\ scfg' = [scfg EXCEPT !.strict_mode.B = strict_mode]
             /\ collB' = validated
             /\ IF ValidationRaises(strict_mode, isvalid)
                THEN /\ storeB' = storeB
                     /\ store' = StoreOnAbort(store)
                     /\ srun' = Failed("validate")
                     /\ spc' = "raised"
                ELSE /\ storeB' = SavedBy("validate", ValidItems(validated),
                                          storeB)
                     /\ store' = store
                     /\ srun' = srun
                     /\ spc' = "generateB"
    /\ UNCHANGED <<collA, collA0, collB0>>
    /\ UNCHANGED notSync

\* action_generate of B: the valid items are saved
GenerateB ==
    /\ spc = "generateB"
    /\ storeB' = SavedBy("generate", ValidItems(collB), storeB)
    /\ spc' = "done"
    /\ UNCHANGED <<scfg, store, collA, collA0, collB, collB0, srun>>
    /\ UNCHANGED notSync

SyncNext ==
    \/ HandlerRunA
    \/ SynchronizeB
    \/ PrepareB
    \/ ValidateB
    \/ GenerateB

SpecSync == SyncInit /\ [][SyncNext]_vars

\* --------------------------------- one handler, run twice over a table
\* The handler of a model with the columns code and name runs prepare
\* (the model has no relations), validate and generate over a staged
\* collection; then the loaders stage a collection again and it runs a
\* second time over the table the first run left.

\* the table before the first run: empty, or one row
GenStores ==
    {<<>>} \cup {(1 :> [code |-> c, name |-> 1, note |-> 1]) : c \in {0, 1}}

\* the staged items: with or without a 'pk', column values 0 (the
\* column's default, falsy) or 1
GenItems == [pk : {0, 1}, code : {0, 1}, name : {0, 1}, ok : BOOLEAN]

StagedGen(i) == Staged(0, i.pk, i.ok, i.code, i.name)

\* the second delivery of the loaders: the same items, or the same items
\* with another name
Renamed(items) ==
    [k \in DOMAIN items |-> [items[k] EXCEPT !.name = 2]]

\* the variables the handler does not touch
notGen == <<fileVars, runVars, call, procs, collB, collB0, storeB, srun,
           prep, dl, keys>>

GenInit ==
    /\ scfg \in
           {c \in [strict_mode : {[A |-> TRUE, B |-> TRUE]},
                   strict_mode_synchronize : {FALSE},
                   save_unchanged_objects : BOOLEAN, natural_keys : BOOLEAN,
                   natural_fields : {{"code"}, {"code", "name"}},
                   related_is_pk : {TRUE}] :
                c.natural_keys \/ c.natural_fields = {"code"}}
    /\ store \in GenStores
    /\ collA \in {[k \in 1..NumAItems |-> StagedGen(s[k])] :
                     s \in [1..NumAItems -> GenItems]}
    /\ collA0 = collA
    /\ spc = "validate"
    /\ gen = [run |-> 1, i |-> 0, writes |-> 0, vstore |-> <<>>,
              store1 |-> <<>>, same |-> FALSE, last |-> NoPass]
    /\ collB = <<>>
    /\ collB0 = <<>>
    /\ storeB = <<>>
    /\ srun = [status |-> StatusInitial, raised |-> "none"]
    /\ marker = NoFile
    /\ now = 0
    /\ RunIdle
    /\ CallIdle
    /\ ProcsIdle
    /\ PrepIdle
    /\ DlIdle
    /\ KeysIdle

\* action_prepare and action_validate; the handler class keeps or
\* overrides strict_mode
GenValidate ==
    /\ spc = "validate"
    /\ \E strict_mode \in BOOLEAN :
         LET validated ==
                 [k \in DOMAIN collA |-> ValidateItem(store, collA[k])]
             isvalid == \A k \in DOMAIN validated : validated[k].valid
         IN  /\ scfg' = [scfg EXCEPT !.strict_mode.A = strict_mode]
             /\ collA' = validated
             /\ spc' = IF ValidationRaises(strict_mode, isvalid)
                       THEN "raised" ELSE "generate"
    /\ gen' = [gen EXCEPT !.i = 1, !.vstore = store, !.last = NoPass]
    /\ UNCHANGED <<store, collA0>>
    /\ UNCHANGED notGen

\* the items get_serialized_data keeps, from position i on
ValidFrom(items, i) == {k \in DOMAIN items : k >= i /\ items[k].valid}

\* one pass of the loop of action_generate
GenerateStep ==
    /\ spc = "generate"
    /\ ValidFrom(collA, gen.i) # {}
    /\ LET k == CHOOSE j \in ValidFrom(collA, gen.i) :
                    \A other \in ValidFrom(collA, gen.i) : j <= other
           g == GenerateItem(collA[k], store)
       IN  /\ collA' = [collA EXCEPT ![k] = g.item]
           /\ store' = g.store
           /\ gen' = [gen EXCEPT
                         !.i = k + 1,
                         !.writes = IF g.char = "-" THEN @ ELSE @ + 1,
                         !.last = [k |-> k, char |-> g.char,
                                   before |-> store]]
    /\ UNCHANGED <<scfg, collA0, spc>>
    /\ UNCHANGED notGen

\* the loop of action_generate ends, handler.run returns
GenerateEnd ==
    /\ spc = "generate"
    /\ ValidFrom(collA, gen.i) = {}
    /\ spc' = "ran"
    /\ gen' = [gen EXCEPT !.last = NoPass]
    /\ UNCHANGED <<scfg, store, collA, collA0>>
    /\ UNCHANGED notGen

\* the importer is run again: the loaders stage the collection anew
Rerun ==
    /\ spc = "ran"
    /\ gen.run = 1
    /\ \E same \in BOOLEAN :
         /\ collA' = IF same THEN collA0 ELSE Renamed(collA0)
         /\ collA0' = collA'
         /\ gen' = [run |-> 2, i |-> 0, writes |-> 0, vstore |-> <<>>,
                    store1 |-> store, same |-> same, last |-> NoPass]
    /\ spc' = "validate"
    /\ UNCHANGED <<scfg, store>>
    /\ UNCHANGED notGen

GenNext ==
    \/ GenValidate
    \/ GenerateStep
    \/ GenerateEnd
    \/ Rerun

SpecGen == GenInit /\ [][GenNext]_vars

\* ------------------------- process_relation over one relation field
\* The handler of B prepares one relation field, the foreign key `owner`
\* or the many-to-many `tags`, over a staged collection; the related
\* model's table is `store`, the related field is its pk.

\* items of the collection being prepared
NumPItems == 2

\* a staged None
NoneValue == [t |-> "none", v |-> 0]

\* the staged values: the scalar 0 (falsy, the pk of no row), the pk of
\* the related row, a pk of no row, a filter on the code of the related
\* row, a filter on a code of no row, None
PrepValues ==
    {Scalar(0), Scalar(ExistingRow.id), Scalar(ExistingRow.id + 1),
     FilterDict(ExistingRow.code), FilterDict(ItemCode(1)), NoneValue}

\* an item carries the field or not
PrepItems(fname) ==
    {[fields |-> <<>>]} \cup
    {[fields |-> (fname :> val)] :
        val \in IF FieldKind(fname) = "m2m" THEN ValueLists(PrepValues)
                ELSE PrepValues}

PrepInit ==
    /\ \E fname \in {f \in FieldNames : FieldKind(f) # "direct"} :
         \E n \in 1..NumPItems :
           \E items \in [1..n -> PrepItems(fname)] :
             prep = [fname |-> fname, data |-> items, data0 |-> items,
                     pc |-> "start", values |-> <<>>, objs |-> <<>>,
                     queries |-> <<>>, qi |-> 0]
    /\ store = ExistingStore
    /\ scfg = [strict_mode |-> [A |-> TRUE, B |-> TRUE],
               strict_mode_synchronize |-> FALSE,
               save_unchanged_objects |-> FALSE, natural_keys |-> FALSE,
               natural_fields |-> {"code"},
               related_is_pk |-> TRUE]
    /\ collA = <<>>
    /\ collA0 = <<>>
    /\ collB = <<>>
    /\ collB0 = <<>>
    /\ storeB = <<>>
    /\ spc = "idle"
    /\ srun = [status |-> StatusInitial, raised |-> "none"]
    /\ marker = NoFile
    /\ now = 0
    /\ RunIdle
    /\ CallIdle
    /\ ProcsIdle
    /\ GenIdle
    /\ DlIdle
    /\ KeysIdle

\* the variables process_relation does not touch
notPrep == <<fileVars, runVars, call, procs, syncVars, gen, dl, keys>>

\* i['fields'][fname] of the items that have the key, lists concatenated
\* for a many-to-many field
FieldValues(item, fname) ==
    IF fname \notin DOMAIN item.fields THEN <<>>
    ELSE IF FieldKind(fname) = "m2m" THEN item.fields[fname]
    ELSE <<item.fields[fname]>>

RECURSIVE CollectValues(_, _, _)
CollectValues(items, fname, k) ==
    IF k > Len(items) THEN <<>>
    ELSE FieldValues(items[k], fname) \o CollectValues(items, fname, k + 1)

\* set(sc_di[0]): the scalars which are not None
Scalars(values) ==
    {values[p].v : p \in {q \in DOMAIN values : values[q].t = "scalar"}}

\* a lookup per scalar occurrence
ScalarQueriesPerValue(values) ==
    LET sc == SelectSeq(values, LAMBDA x : x.t = "scalar")
    IN  [p \in DOMAIN sc |-> [op |-> "in", arg |-> {sc[p].v}]]

\* the lookups for the scalars: filter(rfield__in=set(sc_di[0])), when
\* there is a scalar
ScalarQueries(values) ==
    IF Scalars(values) # {}
    THEN <<[op |-> "in", arg |-> Scalars(values)]>>
    ELSE <<>>

\* the filter dicts, each mapping once
RECURSIVE DistinctDicts(_)
DistinctDicts(values) ==
    IF values = <<>> THEN <<>>
    ELSE LET rest == DistinctDicts(SubSeq(values, 1, Len(values) - 1))
             last == values[Len(values)]
         IN  IF last.t = "filter"
                 /\ \A p \in DOMAIN rest : rest[p] # last
             THEN Append(rest, last) ELSE rest

\* sc_di[1]: the filter dicts, in the order staged
Dicts(values) == SelectSeq(values, LAMBDA x : x.t = "filter")

\* a string value, written as the pieces between its '__' separators:
\* Text(<<"code", "10">>) is 'code__10'
Text(segs) == [t |-> "text", v |-> segs]

\* a mapping with its items in insertion order; FilterDict(c) is the
\* mapping {'code': c}
Mapping(items) == [t |-> "dict", v |-> items]

Item(k, val) == [k |-> k, v |-> val]

IsDict(val) == val.t \in {"filter", "dict"}

MappingItems(val) ==
    IF val.t = "filter" THEN <<Item("code", Scalar(val.v))>> ELSE val.v

\* the column names in the order sorted() gives them
SortedNames == <<"code", "name">>

\* sorted(value.items()): by key, the keys of a dict being distinct
RECURSIVE SortedItems(_, _)
SortedItems(items, n) ==
    IF n > Len(SortedNames) THEN <<>>
    ELSE SelectSeq(items, LAMBDA i : i.k = SortedNames[n])
             \o SortedItems(items, n + 1)

\* unicode(i), as the pieces between its '__' separators
Unicode(val) ==
    CASE val.t = "text" -> val.v
      [] val.t = "none" -> <<"None">>
      [] OTHER -> <<ToString(val.v)>>

\* u'__'.join(...) of reduce(tuple.__add__, items): key, value, key, ...
RECURSIVE JoinItems(_)
JoinItems(items) ==
    IF items = <<>> THEN <<>>
    ELSE <<items[1].k>> \o Unicode(items[1].v) \o JoinItems(Tail(items))

\* get_related_key: a scalar is its own key, a dict the string of its
\* sorted items joined by '__'. A key is the Python value used as dict
\* key: `str` tells a string from a number or None, `segs` are its pieces
GetRelatedKey(val) ==
    IF IsDict(val)
    THEN [str |-> TRUE, segs |-> JoinItems(SortedItems(MappingItems(val), 1))]
    ELSE [str |-> val.t = "text", segs |-> Unicode(val)]

\* value or None
OrNone(val) ==
    IF val.t = "none" \/ (val.t = "scalar" /\ val.v = 0) THEN NoneValue
    ELSE val

\* objs.get(self.get_related_key(value), value or None)
ObjsGet(objs, val) ==
    IF GetRelatedKey(val) \in DOMAIN objs
    THEN Scalar(objs[GetRelatedKey(val)])
    ELSE OrNone(val)

\* process_relation collects the values; with none, objs is the empty
\* list and it returns
ProcessRelation ==
    /\ prep.pc = "start"
    /\ LET values == CollectValues(prep.data, prep.fname, 1)
       IN  prep' = [prep EXCEPT
                       !.values = values,
                       !.pc = IF values = <<>> THEN "done" ELSE "scalars"]
    /\ UNCHANGED notPrep

\* get_related_values: the lookup of the scalars
QueryScalars ==
    /\ prep.pc = "scalars"
    /\ LET found == Scalars(prep.values) \cap DOMAIN store
       IN  prep' = [prep EXCEPT
                       !.queries = @ \o ScalarQueries(prep.values),
                       !.objs = [key \in {GetRelatedKey(Scalar(v)) :
                                             v \in found} |->
                                    CHOOSE v \in found :
                                        GetRelatedKey(Scalar(v)) = key],
                       !.pc = "filters",
                       !.qi = 1]
    /\ UNCHANGED notPrep

\* get_related_values: one pass of the loop over the filter dicts
QueryFilter ==
    /\ prep.pc = "filters"
    /\ prep.qi <= Len(Dicts(prep.values))
    /\ LET query == Dicts(prep.values)[prep.qi]
           value == QueryFirst(query, store)
       IN  prep' = [prep EXCEPT
                       !.queries = Append(@, [op |-> "filter",
                                              arg |-> {query.v}]),
                       !.objs = IF value = 0 THEN @
                                ELSE (GetRelatedKey(query) :> value) @@ @,
                       !.qi = @ + 1]
    /\ UNCHANGED notPrep

\* get_related_values returns objects
ReturnObjects ==
    /\ prep.pc = "filters"
    /\ prep.qi > Len(Dicts(prep.values))
    /\ prep' = [prep EXCEPT !.pc = "assign"]
    /\ UNCHANGED notPrep

\* the fields of an item after the assignment loop passed it
AssignedItem(item, fname, objs) ==
    IF fname \notin DOMAIN item.fields THEN item
    ELSE [item EXCEPT !.fields[fname] =
             IF FieldKind(fname) = "m2m"
             THEN [p \in DOMAIN @ |-> ObjsGet(objs, @[p])]
             ELSE ObjsGet(objs, @)]

\* process_relation after get_related_values: it returns when objs is
\* empty; else it assigns item by item; i['fields'][fname] of a foreign
\* key raises KeyError at an item without the key
AssignValues ==
    /\ prep.pc = "assign"
    /\ LET missing == {k \in DOMAIN prep.data :
                          /\ FieldKind(prep.fname) = "fk"
                          /\ prep.fname \notin DOMAIN prep.data[k].fields}
           upto == IF missing = {} THEN Len(prep.data)
                   ELSE First(missing) - 1
       IN  IF DOMAIN prep.objs = {}
           THEN prep' = [prep EXCEPT !.pc = "done"]
           ELSE prep' = [prep EXCEPT
                            !.data = [k \in DOMAIN @ |->
                                         IF k <= upto
                                         THEN AssignedItem(@[k], prep.fname,
                                                           prep.objs)
                                         ELSE @[k]],
                            !.pc = IF missing = {} THEN "done"
                                   ELSE "raised"]
    /\ UNCHANGED notPrep

PrepNext ==
    \/ ProcessRelation
    \/ QueryScalars
    \/ QueryFilter
    \/ ReturnObjects
    \/ AssignValues

SpecPrepare == PrepInit /\ [][PrepNext]_vars

\* ---------------------------------------------------------------------
\* get_related_key over the values one relation field can stage (SpecKey)

\* relation values of one field: numbers, strings, None and mappings, the
\* same mapping also with its items inserted in the other order
KeyValues ==
    {Scalar(ExistingRow.code), Text(<<"10">>), Text(<<"code", "10">>),
     Text(<<"code", "10", "name", "x">>), NoneValue,
     FilterDict(ExistingRow.code),
     Mapping(<<Item("code", Text(<<"10">>))>>),
     Mapping(<<Item("code", Scalar(ExistingRow.code)),
               Item("name", Text(<<"x">>))>>),
     Mapping(<<Item("name", Text(<<"x">>)),
               Item("code", Scalar(ExistingRow.code))>>),
     Mapping(<<Item("code", Text(<<"10", "name", "x">>))>>)}

\* a == b of two Python values: mappings are equal when their items are,
\* whatever the insertion order
SameValue(a, b) ==
    IF IsDict(a) /\ IsDict(b)
    THEN {MappingItems(a)[p] : p \in DOMAIN MappingItems(a)}
             = {MappingItems(b)[p] : p \in DOMAIN MappingItems(b)}
    ELSE a = b

KeysInit ==
    /\ \E a \in KeyValues, b \in KeyValues :
         keys = [pc |-> "start", a |-> a, b |-> b,
                 ka |-> GetRelatedKey(NoneValue),
                 kb |-> GetRelatedKey(NoneValue)]
    /\ marker = NoFile
    /\ now = 0
    /\ RunIdle
    /\ CallIdle
    /\ ProcsIdle
    /\ SyncIdle
    /\ GenIdle
    /\ PrepIdle
    /\ DlIdle

\* the variables get_related_key does not touch
notKeys == <<fileVars, runVars, call, procs, syncVars, gen, prep, dl>>

\* self.get_related_key(value) for the two values
GetRelatedKeys ==
    /\ keys.pc = "start"
    /\ keys' = [keys EXCEPT !.pc = "done", !.ka = GetRelatedKey(keys.a),
                            !.kb = GetRelatedKey(keys.b)]
    /\ UNCHANGED notKeys

KeysNext == GetRelatedKeys

SpecKey == KeysInit /\ [][KeysNext]_vars

\* ------------------------------------------- the threaded downloader
\* ThreadedDownloader.run() over NumUrls urls: DownloaderThread workers
\* share the queue and the report; the steps are the calls of the queue
\* (empty, get; put and task_done follow the download in one step, no
\* other thread can tell them apart).

\* urls handed to the downloader
NumUrls == 2

\* the most threads asked for
NumThreads == 3

\* the most tries asked for
MaxTries == 2

Urls == 1..NumUrls

Threads == 1..NumThreads

\* what an attempt whose destination does not exist meets: the file is
\* fetched and written, HTTPError 403/404/405, or another error (HTTPError
\* 503 after its sleep, a timeout, an IOError)
DownloadOutcomes == {"fetched", "permanent", "error"}

\* URLLoader.__init__; made, fetches, first and last record the calls of
\* download, the calls of urlopen and what the first and the last attempt
\* met
NewLoader ==
    [tried |-> 0, success |-> "no", made |-> 0, fetches |-> 0,
     first |-> "none", last |-> "none"]

\* a destination: no file, the file found there when the downloader was
\* constructed, or a file written by download
Destinations == {"none", "old", "new"}

\* is_exists that never finds the destination
IsExistsNever(destination) == FALSE

\* URLLoader.is_exists
IsExists(destination) == destination # "none"

\* a download that leaves tried as counted after HTTPError 403/404/405
URLLoaderDownloadRetrying(u, destination, tries, outcome) ==
    LET met == IF IsExists(destination) THEN "exists" ELSE outcome
    IN  [tried |-> u.tried + 1,
         success |-> CASE met = "exists" -> "exists"
                       [] met = "fetched" -> "true"
                       [] OTHER -> u.success,
         made |-> u.made + 1,
         fetches |-> IF met = "exists" THEN u.fetches ELSE u.fetches + 1,
         first |-> IF u.made = 0 THEN met ELSE u.first,
         last |-> met]

\* URLLoader.download
URLLoaderDownload(u, destination, tries, outcome) ==
    LET met == IF IsExists(destination) THEN "exists" ELSE outcome
    IN  [tried |-> IF met = "permanent" THEN tries ELSE u.tried + 1,
         success |-> CASE met = "exists" -> "exists"
                       [] met = "fetched" -> "true"
                       [] OTHER -> u.success,
         made |-> u.made + 1,
         fetches |-> IF met = "exists" THEN u.fetches ELSE u.fetches + 1,
         first |-> IF u.made = 0 THEN met ELSE u.first,
         last |-> met]

\* a worker that puts the url back once more
RequeuesOnceMore(u, tries) == u.success = "no" /\ u.tried <= tries

\* DownloaderThread.run: not success and url.tried < url.tries
Requeues(u, tries) == u.success = "no" /\ u.tried < tries

\* a worker that reports no failure
IsFailureNever(u, tries) == FALSE

\* DownloaderThread.run: not success and url.tried == url.tries
IsFailure(u, tries) ==
    ~Requeues(u, tries) /\ u.success = "no" /\ u.tried = tries

\* DownloaderThread.run: success
IsSuccess(u, tries) ==
    ~Requeues(u, tries) /\ ~IsFailure(u, tries) /\ u.success # "no"

DlInit ==
    /\ \E tries \in 1..MaxTries, threads \in Threads,
          dest \in [Urls -> Destinations \ {"new"}] :
         dl = [pc |-> "init", tries |-> tries, threads |-> threads,
               queue |-> [i \in Urls |-> i], unfinished |-> NumUrls,
               loaders |-> [i \in Urls |-> NewLoader],
               report |-> [success |-> <<>>, failure |-> <<>>],
               pool |-> [w \in Threads |-> [pc |-> "none", url |-> 0]],
               dest |-> dest, dest0 |-> dest]
    /\ marker = NoFile
    /\ now = 0
    /\ RunIdle
    /\ CallIdle
    /\ ProcsIdle
    /\ SyncIdle
    /\ GenIdle
    /\ PrepIdle
    /\ KeysIdle

\* the variables the downloader does not touch
notDl == <<fileVars, runVars, call, procs, syncVars, gen, prep,
           keys>>

\* a pool of as many threads as were asked for
PoolSizeThreads(threads, qsize) == threads

\* min(self.threads, self.queue.qsize())
PoolSize(threads, qsize) == IF threads < qsize THEN threads ELSE qsize

\* ThreadedDownloader.run, up to queue.join(): the threads are started
ThreadedDownloaderRun ==
    /\ dl.pc = "init"
    /\ dl' = [dl EXCEPT
                 !.pc = "join",
                 !.pool = [w \in Threads |->
                              IF w <= PoolSize(dl.threads, Len(dl.queue))
                              THEN [pc |-> "check", url |-> 0]
                              ELSE @[w]]]
    /\ UNCHANGED notDl

\* while not self.queue.empty()
WorkerCheck(w) ==
    /\ dl.pool[w].pc = "check"
    /\ dl' = [dl EXCEPT !.pool[w].pc =
                 IF dl.queue = <<>> THEN "exited" ELSE "get"]
    /\ UNCHANGED notDl

\* url = self.queue.get(): blocks while the queue is empty
WorkerGet(w) ==
    /\ dl.pool[w].pc = "get"
    /\ dl.queue # <<>>
    /\ dl' = [dl EXCEPT
                 !.pool[w] = [pc |-> "download", url |-> Head(dl.queue)],
                 !.queue = Tail(@)]
    /\ UNCHANGED notDl

\* success = url.download(), then put or report, then task_done
WorkerDownload(w) ==
    /\ dl.pool[w].pc = "download"
    /\ \E outcome \in DownloadOutcomes :
         LET i == dl.pool[w].url
             u == URLLoaderDownload(dl.loaders[i], dl.dest[i], dl.tries,
                                    outcome)
         IN  dl' = [dl EXCEPT
                 !.loaders[i] = u,
                 !.dest[i] = IF u.last = "fetched" THEN "new" ELSE @,
                 !.queue = IF Requeues(u, dl.tries) THEN Append(@, i) ELSE @,
                 !.report.failure =
                     IF IsFailure(u, dl.tries) THEN Append(@, i) ELSE @,
                 !.report.success =
                     IF IsSuccess(u, dl.tries) THEN Append(@, i) ELSE @,
                 !.unfinished =
                     IF Requeues(u, dl.tries) THEN @ ELSE @ - 1,
                 !.pool[w] = [pc |-> "check", url |-> 0]]
    /\ UNCHANGED notDl

\* self.queue.join() returns when every task put was marked done
QueueJoin ==
    /\ dl.pc = "join"
    /\ dl.unfinished = 0
    /\ dl' = [dl EXCEPT !.pc = "stop"]
    /\ UNCHANGED notDl

\* i.is_alive() and i._Thread__stop() over the pool: the attribute exists
\* in Python 2 only, so with a thread still alive run() returns or raises
\* AttributeError
StopThreads ==
    /\ dl.pc = "stop"
    /\ \E end \in {"returned", "raised"} :
         /\ (end = "raised") =>
                \E w \in Threads : dl.pool[w].pc \notin {"none", "exited"}
         /\ dl' = [dl EXCEPT !.pc = end]
    /\ UNCHANGED notDl

DlNext ==
    \/ ThreadedDownloaderRun
    \/ \E w \in Threads : WorkerCheck(w)
    \/ \E w \in Threads : WorkerGet(w)
    \/ \E w \in Threads : WorkerDownload(w)
    \/ QueueJoin
    \/ StopThreads

SpecDownload == DlInit /\ [][DlNext]_vars

\* the scheduler lets every thread that can take a step take one, and
\* every fetch returns: each step of the main thread and of each worker is
\* weakly fair
DlFairness ==
    /\ WF_vars(ThreadedDownloaderRun)
    /\ WF_vars(QueueJoin)
    /\ WF_vars(StopThreads)
    /\ \A w \in Threads :
           /\ WF_vars(WorkerCheck(w))
           /\ WF_vars(WorkerGet(w))
           /\ WF_vars(WorkerDownload(w))

SpecDownloadFair == SpecDownload /\ DlFairness

\* ------------------------------------------------- properties of run()
HasEvent(name) == \E k \in 1..Len(trace) : trace[k][1] = name

Count(name) == Cardinality({k \in 1..Len(trace) : trace[k][1] = name})

IsPrefix(s, t) ==
    /\ Len(s) <= Len(t)
    /\ \A k \in 1..Len(s) : s[k] = t[k]

HandlerStepNames == {"synchronize", "prepare", "validate", "generate"}

HookNames == {"pre_run_loader", "pre_run_handler",
              "post_run_loader", "post_run_handler"}

HandlerSteps == SelectSeq(trace, LAMBDA e : e[1] \in HandlerStepNames)

HookCalls == SelectSeq(trace, LAMBDA e : e[1] \in HookNames)

\* the steps of the handlers from j on, for the staged collections present
RECURSIVE ExpectedSteps(_, _)
ExpectedSteps(j, present) ==
    IF j > NumHandlers THEN <<>>
    ELSE (IF j \in present
          THEN <<Ev("synchronize", j), Ev("prepare", j),
                 Ev("validate", j), Ev("generate", j)>>
          ELSE <<>>) \o ExpectedSteps(j + 1, present)

ExpectedHooks ==
    [k \in 1..NumLoaders |-> Ev("pre_run_loader", k)]
    \o [k \in 1..NumHandlers |-> Ev("pre_run_handler", k)]
    \o [k \in 1..NumLoaders |-> Ev("post_run_loader", k)]
    \o [k \in 1..NumHandlers |-> Ev("post_run_handler", k)]

\* the phase of run() a step belongs to
Phase(e) ==
    CASE e[1] = "lock" -> 1
      [] e[1] = "load" -> 2
      [] e[1] = "download" -> 3
      [] e[1] \in {"pre_launch", "pre_run_loader", "pre_run_handler"} -> 4
      [] e[1] \in HandlerStepNames -> 5
      [] e[1] \in {"post_run_loader", "post_run_handler", "post_launch"} -> 6
      [] e[1] = "unlock" -> 7
      [] e[1] = "finish" -> 8

\* C1: in every finished run in which lock() returned true, unlock() was
\* called, whatever was raised by a loader, the download, a hook,
\* synchronize or a handler action; and a run in which lock() returned
\* false never calls unlock().
C1_UnlockOnEveryExit ==
    pc = "done" =>
        /\ lockResult = "true" => HasEvent("unlock")
        /\ lockResult = "false" => ~HasEvent("unlock")

\* C4: when lock() returned false the run does not proceed: no loader, no
\* download, no hook, no synchronize and no handler action is executed,
\* the store is not written, and the lock file is left as it was.
C4_LockedRunDoesNotProceed ==
    lockResult = "false" =>
        /\ \A k \in 1..Len(trace) : trace[k][1] \in {"lock", "finish"}
        /\ wrote = {}
        /\ marker = marker0

C4_Witness ==
    /\ pc = "done"
    /\ lockResult = "false"
    /\ returned = "status"
    /\ marker0.exists

\* C5 as stated: the status a run returns when the lock could not be
\* acquired differs from the status returned after a loader, handler or
\* store call raised (the value "except Exception" assigns).
C5_LockedStatusDiffersFromFailed ==
    (returned = "status" /\ cause = "lock") => status # StatusFailed

\* C5 as amended: a run that could not acquire the lock and a run in which
\* an exception was raised return the same status, and it is not 0.
C5_LockedAndFailedShareStatus ==
    (returned = "status" /\ cause # "none") =>
        (status = StatusFailed /\ status # StatusInitial)

C5_Witness ==
    /\ returned = "status"
    /\ cause = "lock"
    /\ status = 1

\* C6: run() returns 0 exactly when the lock was acquired (or the importer
\* is not lockable) and nothing was raised; invalid items under a
\* non-strict handler do not make the status non-zero, while a strict
\* validation failure, a strict unresolved hash reference and lock
\* contention do.
C6_ZeroIffCleanRun ==
    returned = "status" =>
        /\ status = 0 <=>
             ((lockResult = "true" \/ ~cfg.lockable) /\ cause = "none")
        /\ (lenient /\ cause = "none") => status = 0
        /\ cause \in {"validate", "synchronize", "lock"} => status # 0

C6_Witness ==
    /\ returned = "status"
    /\ lenient
    /\ status = 0
    /\ wrote # {}

\* C7: the handler steps run in the declared order of the handlers, each
\* present handler running synchronize, prepare, validate, generate in
\* that order and finishing before the next one starts; a handler whose
\* collection is absent runs none of them.
C7_HandlersInDeclaredOrder ==
    /\ IsPrefix(HandlerSteps, ExpectedSteps(1, data))
    /\ HasEvent("post_run_loader") =>
           HandlerSteps = ExpectedSteps(1, data)

C7_Witness ==
    /\ pc = "done"
    /\ status = 0
    /\ cfg.generate
    /\ 1 \notin data
    /\ NumHandlers \in data
    /\ HasEvent("generate")

\* C8: the steps of a run follow the phase order lock, load, download,
\* pre_run, handlers, post_run, unlock, finish; every pre_run hook has run
\* before the first handler step; and after an exception only unlock and
\* the final report follow.
C8_PhaseOrder ==
    /\ \A k \in 1..(Len(trace) - 1) : Phase(trace[k]) <= Phase(trace[k + 1])
    /\ \A n \in {"lock", "download", "unlock", "finish"} : Count(n) <= 1
    /\ (HandlerSteps # <<>> \/ HasEvent("post_run_loader")) =>
           /\ Count("pre_run_loader") = NumLoaders
           /\ Count("pre_run_handler") = NumHandlers
    /\ exc # "none" =>
           \A k \in (excAt + 1)..Len(trace) :
               trace[k][1] \in {"unlock", "finish"}

C8_Witness ==
    /\ pc = "done"
    /\ exc = "handled"
    /\ cause = "raised"
    /\ HasEvent("download")
    /\ HasEvent("generate")
    /\ HasEvent("unlock")
    /\ HasEvent("finish")

\* C9 as stated: every run that acquired the lock and loaded without error
\* invokes pre_run and then post_run on every loader and handler, in
\* declared order, whether generate is true or false.
C9_HooksRegardlessOfGenerate ==
    (pc = "done" /\ lockResult = "true"
        /\ ~(cause = "raised" /\ trace[excAt][1] = "load")) =>
        HookCalls = ExpectedHooks

\* C9 as amended: a run with generate true in which nothing is raised
\* invokes pre_run and then post_run on every loader and handler, in
\* declared order; a run with generate false invokes no hook at all.
C9_HooksOnlyWhenGenerating ==
    /\ (pc = "done" /\ cfg.generate /\ cause = "none") =>
           HookCalls = ExpectedHooks
    /\ ~cfg.generate => HookCalls = <<>>

C9_Witness ==
    /\ pc = "done"
    /\ lockResult = "true"
    /\ cfg.generate
    /\ cause = "none"
    /\ HookCalls = ExpectedHooks

\* --------------------------------------------- properties of FileLock
\* C2: of two importer runs that share the lock file and both finish
\* within the staleness window, at most one is between a lock() that
\* returned true and its unlock().
C2_AtMostOneHolder ==
    (\A p \in Procs : ~procs[p].late) =>
        Cardinality({p \in Procs : procs[p].acquired}) <= 1

\* C3: a lock() without force on an existing marker returns false and
\* leaves the marker alone while the marker is younger than locktime, and
\* returns true and refreshes the marker once its age is at least
\* locktime, although unlock() was not called.
C3_LockWithinAndAfterWindow ==
    (call.op = "lock" /\ ~call.force /\ call.before.exists) =>
        IF call.at - call.before.mtime < LockTime
        THEN call.result = FALSE /\ marker = call.before
        ELSE call.result = TRUE /\ marker = File(call.at)

C3_Witness ==
    /\ call.op = "lock"
    /\ ~call.force
    /\ call.before.exists
    /\ call.at - call.before.mtime = LockTime
    /\ call.result = TRUE
    /\ marker = File(call.at)

\* ------------------------------------------- properties of synchronize
\* the value of the related field of A's row id
RelatedValue(id) == IF scfg.related_is_pk THEN id ELSE store[id].code

\* C10: when synchronize of B has returned, every reference {'__hash__': h}
\* that an item of B staged under a declared foreign key, or inside the
\* list of a declared many-to-many field, holds the related-field value of
\* the row of every item of A that carries hash h and was persisted
C10_HashResolvesToPersistedRow ==
    spc = "synced" =>
        \A k \in DOMAIN collA, n \in DOMAIN collB0 :
            LET a == collA[k]
                was == collB0[n].fields
                is == collB[n].fields
            IN  (a.hash # 0 /\ a.valid /\ a.pk \in DOMAIN store) =>
                    \A f \in DOMAIN collB0[n].hash_related :
                        /\ (FieldKind(f) = "fk" /\ was[f] = HashRef(a.hash))
                               => is[f] = Scalar(RelatedValue(a.pk))
                        /\ FieldKind(f) = "m2m" =>
                               \A p \in DOMAIN was[f] :
                                   was[f][p] = HashRef(a.hash) =>
                                       is[f][p] = Scalar(RelatedValue(a.pk))

\* the hash references an item stages in the fields it declares in
\* 'hash_related'
DeclaredRefs(item) ==
    UNION {{val \in RelationValues(item, f) : IsHashWrapper(val)} :
           f \in DOMAIN item.hash_related}

\* a reference whose hash no item of A carries, or whose target item has
\* no 'pk'
Unresolvable(val) ==
    \/ val.v \notin DOMAIN HashedIndex(collA)
    \/ HashedIndex(collA)[val.v].pk = 0

HasUnresolvableRef(item) == \E val \in DeclaredRefs(item) : Unresolvable(val)

\* synchronize of B was called
SynchronizeBCalled == collB0 # <<>>

\* C11: when B's handler has strict_mode_synchronize set and an item of B
\* references, through hash_related, a hash whose target is missing from
\* the index or has no pk, synchronize raises, the run's status is
\* non-zero and no row of B's table is created or updated.
C11_StrictUnresolvedAbortsBeforeWrites ==
    (/\ SynchronizeBCalled
     /\ scfg.strict_mode_synchronize
     /\ \E n \in DOMAIN collB0 : HasUnresolvableRef(collB0[n]))
        => /\ spc = "raised"
           /\ srun.raised = "synchronize"
           /\ srun.status # StatusInitial
           /\ storeB = <<>>

C11_Witness ==
    /\ SynchronizeBCalled
    /\ scfg.strict_mode_synchronize
    /\ \E n \in DOMAIN collB0 : HasUnresolvableRef(collB0[n])
    /\ \E k \in DOMAIN collA : collA[k].valid /\ collA[k].hash # 0
    /\ srun = Failed("synchronize")
    /\ storeB = <<>>

\* the value an item holds at position p of field f (p = 0 for a field
\* that is not a list)
ValueAt(item, f, p) == IF p = 0 THEN item.fields[f] ELSE item.fields[f][p]

Positions(item, f) ==
    IF f \notin DOMAIN item.fields THEN {}
    ELSE IF FieldKind(f) = "m2m" THEN DOMAIN item.fields[f] ELSE {0}

\* C12: when B's handler is in lenient synchronize mode and a hash
\* reference of an item cannot be resolved, synchronize leaves the wrapper
\* in place, neither synchronize nor prepare raises, and validation marks
\* the item invalid, raising exactly when B's strict_mode is set.
C12_LenientUnresolvedDefersToValidation ==
    (/\ SynchronizeBCalled
     /\ ~scfg.strict_mode_synchronize
     /\ \E n \in DOMAIN collB0 : HasUnresolvableRef(collB0[n]))
        => /\ srun.raised \notin {"synchronize", "prepare"}
           /\ \A n \in DOMAIN collB0 :
                  \A f \in DOMAIN collB0[n].hash_related :
                      \A p \in Positions(collB0[n], f) :
                          LET val == ValueAt(collB0[n], f, p)
                          IN  (IsHashWrapper(val) /\ Unresolvable(val))
                                  => ValueAt(collB[n], f, p) = val
           /\ spc \in {"done", "raised"} =>
                  /\ \A n \in DOMAIN collB0 :
                         HasUnresolvableRef(collB0[n]) => ~collB[n].valid
                  /\ srun.raised = "validate" <=> scfg.strict_mode.B

\* C13: when two items of A carry the same '__hash__' and an item of B
\* references A through hash_related, synchronize of B raises.
C13_DuplicateHashIsAnError ==
    (/\ SynchronizeBCalled
     /\ \E k, j \in DOMAIN collA :
            k # j /\ collA[k].hash # 0 /\ collA[k].hash = collA[j].hash
     /\ \E n \in DOMAIN collB0 : DOMAIN collB0[n].hash_related # {})
        => srun.raised = "synchronize"

\* A's handler ran
HandlerARan == spc # "handlerA" /\ collA0 # <<>>

\* C14: when A's handler has strict_mode set and at least one item of A
\* fails validation, no item of A, valid or not, is created or updated in
\* the store, no item gets a pk, and the run's status is non-zero.
C14_StrictInvalidBlocksWholeCollection ==
    (/\ HandlerARan
     /\ scfg.strict_mode.A
     /\ \E k \in DOMAIN collA : ~collA[k].valid)
        => /\ store = ExistingStore
           /\ \A k \in DOMAIN collA : collA[k].pk = collA0[k].pk
           /\ srun = Failed("validate A")
           /\ srun.status # StatusInitial

C14_Witness ==
    /\ HandlerARan
    /\ scfg.strict_mode.A
    /\ \E k \in DOMAIN collA : ~collA[k].valid
    /\ \E k \in DOMAIN collA : collA[k].valid /\ collA[k].changed
    /\ spc = "raised"
    /\ store = ExistingStore

\* C15: when A's handler has strict_mode unset, every item that fails
\* validation is marked invalid, is not written to the store and gets no
\* pk from generate; every valid item is still processed by generate (a
\* changed one carries the pk of a row afterwards, an unchanged one the pk
\* validation resolved); the run goes on to the next handler.
C15_LenientSkipsInvalidKeepsValid ==
    (HandlerARan /\ ~scfg.strict_mode.A)
        => /\ \A k \in DOMAIN collA :
                  ~collA0[k].ok =>
                      /\ ~collA[k].valid
                      /\ collA[k].pk = collA0[k].pk
                      /\ \A id \in DOMAIN store :
                             store[id].code # collA[k].code
           /\ \A k \in DOMAIN collA :
                  collA0[k].ok =>
                      /\ collA[k].valid
                      /\ collA[k].changed => collA[k].pk \in DOMAIN store
                      /\ ~collA[k].changed =>
                             collA[k].pk = collA[k].cleaned_pk
           /\ srun.raised # "validate A"
           /\ spc = "raised" => SynchronizeBCalled

C15_Witness ==
    /\ HandlerARan
    /\ ~scfg.strict_mode.A
    /\ \E k \in DOMAIN collA : ~collA[k].valid
    /\ \E k \in DOMAIN collA :
           /\ collA[k].valid
           /\ collA[k].pk \in DOMAIN store
           /\ HoldsData(store[collA[k].pk], ItemRow(collA[k]))
    /\ spc = "done"
    /\ storeB # <<>>

\* --------------------------------------------- properties of generate
\* validate ran in the current run
Validated == spc \in {"generate", "ran", "raised"} /\ gen.run > 0

\* C16: a pass of generate over a valid item for which validation
\* resolved no row creates exactly one new row holding the item's cleaned
\* data; a pass over an item for which validation resolved a row leaves
\* that row holding the item's data and the number of rows unchanged.
C16_CreateOrUpdateInPlace ==
    gen.last.k # 0 =>
        LET it == collA[gen.last.k]
            before == gen.last.before
        IN  /\ it.instance = 0 =>
                   \E id \in DOMAIN store \ DOMAIN before :
                       /\ DOMAIN store = DOMAIN before \cup {id}
                       /\ HoldsData(store[id], ItemRow(it))
                       /\ \A o \in DOMAIN before : store[o] = before[o]
            /\ it.instance # 0 =>
                   /\ DOMAIN store = DOMAIN before
                   /\ HoldsData(store[it.instance], ItemRow(it))
                   /\ \A o \in DOMAIN before \ {it.instance} :
                          store[o] = before[o]

\* C17: validation resolves an item to a row exactly when the item
\* carries a pk that exists in the table or, carrying no pk while natural
\* keys are declared, its natural-key value matches a row; and every row
\* of the table is resolved to itself through its pk and through its
\* natural-key value.
C17_ResolvesIffKeyMatches ==
    Validated =>
        /\ \A k \in DOMAIN collA :
               collA[k].instance # 0 <=>
                   \/ collA0[k].pk \in DOMAIN gen.vstore
                   \/ /\ collA0[k].pk = 0
                      /\ scfg.natural_keys
                      /\ \E id \in DOMAIN gen.vstore :
                             gen.vstore[id].code = collA[k].code
        /\ \A id \in DOMAIN gen.vstore :
               LET row == gen.vstore[id]
               IN  /\ GetInstanceFromData(
                          gen.vstore, Staged(0, id, TRUE, row.code, row.name))
                          = id
                   /\ scfg.natural_keys =>
                          GetInstanceFromData(
                              gen.vstore,
                              Staged(0, 0, TRUE, row.code, row.name)) = id

\* C18: for every valid item, changed is true exactly when the item's
\* values differ from the values of the row validation resolved, and it
\* is true when validation resolved no row; so a valid new item is in the
\* table once generate is through under the default policy.
C18_ChangedIffDiffersNewAlwaysChanged ==
    Validated =>
        \A k \in DOMAIN collA :
            collA[k].valid =>
                /\ collA[k].instance # 0 =>
                       (collA[k].changed <=>
                            ~HoldsData(gen.vstore[collA[k].instance],
                                       ItemRow(collA[k])))
                /\ collA[k].instance = 0 => collA[k].changed
                /\ (spc = "ran" /\ collA[k].instance = 0) =>
                       collA[k].pk \in DOMAIN store

\* C19: when generate is through, every valid item carries a pk, and it
\* is the pk of a row of the table.
C19_ValidItemsCarryPk ==
    (spc = "ran" /\ gen.run > 0) =>
        \A k \in DOMAIN collA :
            collA[k].valid =>
                collA[k].pk # 0 /\ collA[k].pk \in DOMAIN store

\* C20: a second run over the same input with save_unchanged_objects unset
\* writes no row and leaves the table as the first run left it.
C20_SecondRunWritesNothing ==
    (/\ spc = "ran"
     /\ gen.run = 2
     /\ gen.same
     /\ ~scfg.save_unchanged_objects)
        => gen.writes = 0 /\ store = gen.store1

\* C21: a pass of generate that updates an existing row overwrites on it
\* only the fields present in the item's cleaned data, with the cleaned
\* values; every other column of the row keeps the value it had before
\* the pass, and before the run when the row existed then.
C21_UpdateOverwritesOnlyCleanedFields ==
    (gen.last.k # 0 /\ gen.last.char = ".") =>
        LET it == collA[gen.last.k]
            before == gen.last.before
        IN  /\ it.pk \in DOMAIN before
            /\ HoldsData(store[it.pk], ItemRow(it))
            /\ \A c \in DOMAIN store[it.pk] \ DOMAIN ItemRow(it) :
                   /\ store[it.pk][c] = before[it.pk][c]
                   /\ it.pk \in DOMAIN gen.vstore =>
                          store[it.pk][c] = gen.vstore[it.pk][c]

\* an update changed a field of a row whose column outside the cleaned
\* data holds another value than the column's default
C21_Witness ==
    /\ gen.last.k # 0
    /\ gen.last.char = "."
    /\ LET it == collA[gen.last.k]
       IN  /\ it.pk \in DOMAIN gen.last.before
           /\ ~HoldsData(gen.last.before[it.pk], ItemRow(it))
           /\ store[it.pk].note # DefaultRow.note

\* ------------------------------- properties of the store across steps
\* the table of A right after A's generate, computed from the staged data
StoreAfterA ==
    GenerateFrom(1, [k \in DOMAIN collA0 |->
                        ValidateItem(ExistingStore, collA0[k])],
                 ExistingStore).store

\* the run raised in a step of B's pass of the handlers loop
AbortedInB == spc = "raised" /\ srun.raised \in {"synchronize", "prepare",
                                                  "validate"}

\* C25: when the run aborts with an error while processing B, after A was
\* generated, every row A's generate created or updated is in the store
\* exactly as written: the table of A is the one A's generate left.
C25_EarlierWritesSurviveAbort ==
    AbortedInB =>
        /\ store = StoreAfterA
        /\ srun.status = StatusFailed
        /\ \A k \in DOMAIN collA :
               (collA[k].valid /\ collA[k].changed) =>
                   collA[k].pk \in DOMAIN store

\* the run aborted in B after A's generate created or updated a row
C25_Witness ==
    /\ AbortedInB
    /\ store # ExistingStore
    /\ \E k \in DOMAIN collA :
           /\ collA[k].valid
           /\ collA[k].changed
           /\ collA[k].pk \in DOMAIN store \ DOMAIN ExistingStore

\* C30: the synchronize, prepare and validate steps leave every row of
\* both tables unchanged, whether they return or raise; the tables change
\* only in a generate step.
C30_OnlyGenerateWritesStore ==
    [][/\ spc \in {"synchronizeB", "synced", "validateB"} =>
              (store' = store /\ storeB' = storeB)
       /\ (spc = "handlerA" /\ spc' = "raised") =>
              (store' = store /\ storeB' = storeB)]_vars

\* synchronize, prepare and validate of B went through with a valid item
\* and B's table is still empty, A's rows as A's generate left them
C30_Witness ==
    /\ spc = "generateB"
    /\ \E n \in DOMAIN collB : collB[n].valid
    /\ collB # collB0
    /\ storeB = <<>>
    /\ store = StoreAfterA

\* ------------------------------------------ properties of prepare
\* process_relation returned or raised
Prepared == prep.pc \in {"done", "raised"}

\* the values the loaders staged under the field, over the collection
StagedValues == CollectValues(prep.data0, prep.fname, 1)

\* the lookups of one kind issued so far
Lookups(op) == SelectSeq(prep.queries, LAMBDA q : q.op = op)

\* C22: the prepare step over a collection whose values for the relation
\* field are all scalars issues exactly one lookup for the field, an IN
\* lookup over the set of the scalars, whatever the number of items; and
\* no pass issues more than one IN lookup.
C22_OneLookupForScalars ==
    /\ Len(Lookups("in")) <= 1
    /\ (/\ Prepared
        /\ StagedValues # <<>>
        /\ \A p \in DOMAIN StagedValues : StagedValues[p].t = "scalar")
           => /\ Len(prep.queries) = 1
              /\ prep.queries[1] =
                     [op |-> "in", arg |-> Scalars(StagedValues)]

\* every item of a full collection carries scalars, two of them differ,
\* and one lookup was issued
C22_Witness ==
    /\ Prepared
    /\ Len(prep.data0) = NumPItems
    /\ \A k \in DOMAIN prep.data0 :
           FieldValues(prep.data0[k], prep.fname) # <<>>
    /\ \A p \in DOMAIN StagedValues : StagedValues[p].t = "scalar"
    /\ Cardinality(Scalars(StagedValues)) > 1
    /\ Len(prep.queries) = 1

\* C23: the prepare step issues one filter lookup per distinct filter
\* mapping staged under the field: a mapping staged several times is
\* looked up once.
C23_OneLookupPerDistinctMapping ==
    Prepared =>
        Len(Lookups("filter")) =
            Cardinality({StagedValues[p] :
                            p \in {q \in DOMAIN StagedValues :
                                      StagedValues[q].t = "filter"}})

\* C23, as the code has it: the prepare step issues one filter lookup per
\* occurrence of a filter mapping, in the order staged, so a mapping
\* staged k times is looked up k times; all its occurrences end with the
\* same value.
C23_OneLookupPerOccurrence ==
    Prepared =>
        /\ LET staged == SelectSeq(StagedValues, LAMBDA x : x.t = "filter")
           IN  Lookups("filter") =
                   [p \in DOMAIN staged |->
                       [op |-> "filter", arg |-> {staged[p].v}]]
        /\ LET after == CollectValues(prep.data, prep.fname, 1)
           IN  prep.pc = "done" =>
                   \A p, q \in DOMAIN StagedValues :
                       (/\ StagedValues[p].t = "filter"
                        /\ StagedValues[p] = StagedValues[q])
                           => after[p] = after[q]

\* one mapping was staged twice and looked up twice
C23_Witness ==
    /\ Prepared
    /\ \E p, q \in DOMAIN StagedValues :
           /\ p # q
           /\ StagedValues[p].t = "filter"
           /\ StagedValues[p] = StagedValues[q]
    /\ \E a, b \in DOMAIN prep.queries :
           /\ a # b
           /\ prep.queries[a].op = "filter"
           /\ prep.queries[a] = prep.queries[b]

\* a staged scalar or filter mapping that matches no row of the related
\* table
NoMatchingRow(val) ==
    \/ val.t = "scalar" /\ val.v \notin DOMAIN store
    \/ val.t = "filter" /\ QueryFirst(val, store) = 0

\* C24: the prepare step raises no exception, and after it every value of
\* the relation field for which the related table holds no matching row
\* is None.
C24_UnresolvedBecomesNone ==
    /\ prep.pc # "raised"
    /\ prep.pc = "done" =>
           LET after == CollectValues(prep.data, prep.fname, 1)
           IN  \A p \in DOMAIN StagedValues :
                   NoMatchingRow(StagedValues[p]) => after[p] = NoneValue

\* ---------------------------------------- properties of the downloader
\* how often a report list names the url
Occurs(list, i) == Cardinality({p \in DOMAIN list : list[p] = i})

\* queue.join() returned
Joined == dl.pc \in {"stop", "returned", "raised"}

\* the url is in the queue or in the hands of a worker
Pending(i) ==
    \/ \E p \in DOMAIN dl.queue : dl.queue[p] = i
    \/ \E w \in Threads : dl.pool[w].pc = "download" /\ dl.pool[w].url = i

C27_PermanentFailureNotRetried ==
    dl.pc # "idle" =>
        \A i \in Urls :
            /\ dl.loaders[i].first = "permanent" =>
                   /\ dl.loaders[i].made = 1
                   /\ ~Pending(i)
                   /\ Occurs(dl.report.failure, i) = 1
                   /\ Occurs(dl.report.success, i) = 0
            /\ dl.loaders[i].last \in {"fetched", "exists"} =>
                   Occurs(dl.report.success, i) = 1

\* with more than one try allowed, one url met a permanent failure at
\* once and every other url succeeded
C27_Witness ==
    /\ Joined
    /\ dl.tries > 1
    /\ \E i \in Urls :
           /\ dl.loaders[i].first = "permanent"
           /\ dl.report.failure = <<i>>
           /\ Len(dl.report.success) = NumUrls - 1

C29_ExistingDestinationNotFetched ==
    dl.pc # "idle" =>
        \A i \in Urls :
            /\ dl.dest0[i] = "old" =>
                   /\ dl.loaders[i].fetches = 0
                   /\ dl.dest[i] = "old"
                   /\ dl.loaders[i].made > 0 =>
                          /\ dl.loaders[i].success = "exists"
                          /\ dl.loaders[i].made = 1
                          /\ Occurs(dl.report.success, i) = 1
            /\ Occurs(dl.report.success, i) > 0 => IsExists(dl.dest[i])

\* run() returned over urls whose destinations all existed
C29_Witness ==
    /\ dl.pc = "returned"
    /\ \A i \in Urls : dl.dest0[i] = "old" /\ dl.loaders[i].made = 1
    /\ Len(dl.report.success) = NumUrls

\* ---------------------------------------------------------------------
\* Frame and error behaviour of synchronize (SpecSync)

C35_LenientSynchronizeNeverRaises ==
    (SynchronizeBCalled /\ ~scfg.strict_mode_synchronize)
        => srun.raised # "synchronize"

\* ---------------------------------------------------------------------
\* Items without the field in process_relation (SpecPrepare)

\* C36: process_relation on a foreign-key field does not raise, and when
\* it has returned every item that does not carry the field is as staged,
\* also when other items carry the field and were resolved.
C36_ForeignKeySkipsItemsWithoutField ==
    FieldKind(prep.fname) = "fk" =>
        /\ prep.pc # "raised"
        /\ prep.pc = "done" =>
               \A k \in DOMAIN prep.data0 :
                   prep.fname \notin DOMAIN prep.data0[k].fields
                       => prep.data[k] = prep.data0[k]

\* ---------------------------------------------------------------------
\* Keys of relation values (SpecKey)

\* C39: get_related_key gives equal relation values the same key, whatever
\* the insertion order of a mapping's items, and gives two different
\* relation values (two mappings, or a mapping and a scalar) different
\* keys.
C39_RelatedKeyCanonicalAndCollisionFree ==
    keys.pc = "done" =>
        (SameValue(keys.a, keys.b) <=> keys.ka = keys.kb)

\* ---------------------------------------------------------------------
\* Resolution by natural keys (SpecGen)

\* C37: when validation resolved an item without pk through the declared
\* natural keys, the row holds the item's value in every declared
\* natural-key field; an item without a value for one of them is not
\* resolved to a row that matches the remaining ones only.
C37_NaturalKeyMatchCoversEveryField ==
    Validated =>
        \A k \in DOMAIN collA :
            (/\ collA0[k].pk = 0
             /\ scfg.natural_keys
             /\ collA[k].instance # 0)
                => \A f \in scfg.natural_fields :
                       gen.vstore[collA[k].instance][f]
                           = ItemRow(collA0[k])[f]

\* ---------------------------------------------------------------------
\* Data and files handed to run() directly (Spec)

\* no loader was executed: the data handed to run() were not empty
NoLoaderRan == \A p \in DOMAIN trace : trace[p][1] # "load"

\* C38: when run() got data and files directly, so that no loader ran, and
\* download is on, the files are handed to download_media and the run goes
\* on to generation: no exception comes from the missing loader, and the
\* run is past the download step only after a download.
C38_DirectFilesAreDownloaded ==
    (NoLoaderRan /\ cfg.download /\ files) =>
        /\ cause # "unbound"
        /\ pc = "generate?" =>
               \E p \in DOMAIN trace : trace[p] = Ev("download", 0)

\* ---------------------------------------------------------------------
\* unlock() and the marker of another run (SpecLockRace)

\* run q is between a lock() that returned true and its unlock(), inside
\* its staleness window
HoldsLock(q) ==
    /\ procs[q].acquired
    /\ procs[q].pc = "work"
    /\ now - procs[q].since < LockTime

\* C34: the unlock() of a run leaves the marker in place while a different
\* run holds the lock inside its window, also when the unlocking run has
\* outlived its own window.
C34_UnlockKeepsOtherRunsMarker ==
    [][\A p, q \in Procs :
           (/\ p # q
            /\ procs[p].pc = "unlock_unlink"
            /\ procs'[p].pc = "done"
            /\ HoldsLock(q))
               => marker' = marker]_vars

\* ---------------------------------------------------------------------
\* The pool and the shared report (SpecDownload)

\* the workers started so far
Started == {w \in Threads : dl.pool[w].pc # "none"}

\* the workers that took an item off the queue and have not finished it
Holders(i) == {w \in Threads : dl.pool[w].pc = "download" /\ dl.pool[w].url = i}

\* the report lists one after the other
Reported == dl.report.success \o dl.report.failure

IsPrefixOf(s, t) == Len(s) <= Len(t) /\ SubSeq(t, 1, Len(s)) = s

\* C33: at most min(threads, number of items) workers exist; an item is
\* held by at most one worker at a time and is not in the queue meanwhile;
\* no item is listed twice in the report, and a step only appends to the
\* report lists.
C33_PoolBoundedItemsExclusiveReportGrows ==
    /\ [](dl.pc # "idle" =>
            /\ Cardinality(Started) <= dl.threads
            /\ Cardinality(Started) <= NumUrls
            /\ \A i \in Urls :
                   /\ Cardinality(Holders(i)) <= 1
                   /\ Holders(i) # {} =>
                          \A p \in DOMAIN dl.queue : dl.queue[p] # i
            /\ \A p, q \in DOMAIN Reported :
                   Reported[p] = Reported[q] => p = q)
    /\ [][dl.pc # "idle" =>
            /\ IsPrefixOf(dl.report.success, dl'.report.success)
            /\ IsPrefixOf(dl.report.failure, dl'.report.failure)]_vars

\* more threads were asked for than there are items: every item is held by
\* a worker of its own, one of them after a failed attempt of another
\* worker, and a third item is not there to start a third worker
C33_Witness ==
    /\ dl.pc = "join"
    /\ dl.threads > NumUrls
    /\ Cardinality(Started) = NumUrls
    /\ \A i \in Urls : Cardinality(Holders(i)) = 1
    /\ \E i \in Urls : dl.loaders[i].tried > 0

\* ---------------------------------------------------------------------
\* Termination of the workers (SpecDownloadFair)

\* C32: under a fair scheduler and with every fetch returning, every
\* worker that was started leaves its loop and terminates; none stays
\* blocked in queue.get() on the drained queue.
C32_EveryWorkerTerminates ==
    \A w \in Threads :
        (dl.pool[w].pc # "none") ~> (dl.pool[w].pc = "exited")

====
